---- MODULE Spec2Model ----
(***************************************************************************)
(* Auto-Scholar: the review workflow (backend/workflow.py, backend/nodes.py)*)
(* driven by the request adapter (app/main.py) over a checkpoint store     *)
(* keyed by thread_id.                                                     *)
(***************************************************************************)
EXTENDS Integers, Sequences, FiniteSets, TLC

\* ------------------------------------------------------------------------
\* Bounds of the model
\* ------------------------------------------------------------------------
MaxPapers == 2
MaxVerifications == 1
MaxContinues == 1
MaxDedupLen == 3
MaxPushes == 3
MaxChunks == 3
MaxFailures == 5
MaxTime == 240
MaxRetrievals == 4
MaxExtractPapers == 3
MaxDoiParts == 3
MaxSections == 3
MaxClaimPairs == 3
MaxCriticPapers == 2
MaxDraftSections == 2
MaxEntailments == 5
MaxClock == 400
MaxQueries == 2

\* ------------------------------------------------------------------------
\* Program constants
\* ------------------------------------------------------------------------
MAX_RETRY_COUNT == 3
LLM_CONCURRENCY == 2
CLAIM_VERIFICATION_CONCURRENCY == 2
FLUSH_INTERVAL_MS == 200
STOP_AFTER_ATTEMPT == 3
SOURCE_SKIP_THRESHOLD == 3
SOURCE_SKIP_WINDOW_SECONDS == 120
MAX_KEYWORDS == 5
CLAIM_VERIFICATION_ENABLED == TRUE

Nodes == {"planner_agent", "retriever_agent", "extractor_agent", "writer_agent", "critic_agent"}

\* workflow.py: graph.compile(interrupt_before=["extractor_agent"])
INTERRUPT_BEFORE == "extractor_agent"

\* main.py: the node name approve_papers looks for in snapshot.next
WAITING_FOR_APPROVAL == "read_and_extract_node"

\* The keys search_papers_multi_source passes to the tracker
TrackedSources == {"semantic_scholar", "arxiv", "pubmed"}

\* One session is followed; "t2" is a thread_id that start never issued.
ThreadIds == {"t1", "t2"}
PaperIds == 1..(MaxPapers + 1)

\* ------------------------------------------------------------------------
\* Helpers
\* ------------------------------------------------------------------------
Min(a, b) == IF a <= b THEN a ELSE b

MinOf(S) == CHOOSE x \in S : \A y \in S : x <= y

RECURSIVE SortedSeq(_)
\* sorted(S) for a finite set of integers
SortedSeq(S) == IF S = {} THEN <<>> ELSE <<MinOf(S)>> \o SortedSeq(S \ {MinOf(S)})

RECURSIVE FilterSeq(_, _)
\* [x for x in s if x in keep-positions]: the subsequence of s at the indices in K
FilterSeq(s, K) ==
    IF s = <<>> THEN <<>>
    ELSE LET rest == FilterSeq(Tail(s), {k - 1 : k \in K \ {1}})
         IN IF 1 \in K THEN <<Head(s)>> \o rest ELSE rest

\* Optional values: <<>> is None, <<v>> is a present value
None == <<>>
Some(v) == <<v>>

Range(s) == {s[i] : i \in DOMAIN s}

\* ------------------------------------------------------------------------
\* State
\* ------------------------------------------------------------------------
VARIABLES
    values,     \* checkpoint store: thread_id -> channel values (AgentState), or NoValues
    next,       \* checkpoint store: thread_id -> snapshot.next (set of node names)
    call,       \* the request the adapter is serving (its run of the graph), or Idle
    response,   \* the last response the adapter returned
    executed,   \* thread_id -> node -> number of completed executions of the stage
    lastDraft,  \* thread_id -> output of the last Writer execution
    continues,  \* thread_id -> number of continue calls that passed the guards
    dedup,      \* deduplicate_papers: the list it is given and the locals of its loop
    sq,         \* one StreamingEventQueue, its callers and its consumer
    producer,   \* stream_research: the producer task of a stream
    tracker,    \* source_tracker._failures, the clock, and the retrieval in flight
    extraction, \* one execution of extractor_agent: its concurrent extractions
    doi,        \* _normalize_doi: the string it is given and what it returns
    semantic,   \* verify_draft_citations: the LLM calls of one semantic check
    critic,     \* critic_agent: the state it is given, its locals and its update
    clock,      \* time.monotonic() and the times the StreamingEventQueue keeps
    fetch,      \* search_semantic_scholar: its keyword requests and their attempts
    overlap     \* approve_papers: two calls for one thread at the interrupt, and their runs

\* The session store and the request in flight
workflow_vars == <<values, next, call, response, executed, lastDraft, continues>>

\* The state of the utilities (backend/utils), which no workflow step of this model touches
util_vars == <<tracker, extraction, doi, semantic, critic, clock, fetch, overlap>>

library_vars == <<dedup, sq, producer, util_vars>>

not_tracker == <<workflow_vars, dedup, sq, producer, extraction, doi, semantic, critic, clock, fetch, overlap>>

not_extraction == <<workflow_vars, dedup, sq, producer, tracker, doi, semantic, critic, clock, fetch, overlap>>

not_doi == <<workflow_vars, dedup, sq, producer, tracker, extraction, semantic, critic, clock, fetch, overlap>>

not_semantic == <<workflow_vars, dedup, sq, producer, tracker, extraction, doi, critic, clock, fetch, overlap>>

not_critic == <<workflow_vars, dedup, sq, producer, tracker, extraction, doi, semantic, clock, fetch, overlap>>

\* What the queue and its timer leave alone
not_timed_queue == <<workflow_vars, dedup, producer, tracker, extraction, doi, semantic, critic, fetch, overlap>>

not_fetch == <<workflow_vars, dedup, sq, producer, tracker, extraction, doi, semantic, critic, clock, overlap>>

not_overlap == <<workflow_vars, dedup, sq, producer, tracker, extraction, doi, semantic, critic, clock, fetch>>

vars == <<workflow_vars, library_vars>>

NoValues == [exists |-> FALSE]

NoRun == [n \in Nodes |-> 0]

\* The Writer before it ran in a run of the graph. mode is the path it took,
\* addenda the addenda it put on the base prompt, llm_calls the number of
\* completions it made, after_critic whether the critic had run before it.
NoWriter == [mode |-> "none", addenda |-> {}, llm_calls |-> 0, after_critic |-> FALSE]

Idle == [op |-> "idle", thread |-> "t2", resuming |-> FALSE, ran |-> NoRun,
         failed |-> 0, passed |-> 0, log_count |-> 0, approved_count |-> 0, text |-> 0,
         before |-> NoValues, writer |-> NoWriter]

Response(op, t, status, detail) ==
    [op |-> op, thread |-> t, status |-> status, detail |-> detail, matched |-> 0,
     final_draft |-> None]

\* No response yet: before the first request, and while a request is being served
NoResponse == [op |-> "none", thread |-> "t2", status |-> 0, detail |-> "none",
               matched |-> 0, final_draft |-> None]

Exists(t) == values[t].exists

Closers == {"c1", "c2"}

\* StreamingEventQueue.__init__, with the tasks that will use the queue not yet
\* started. Chunks in _queue are Some(string), the sentinel is None. The fields
\* pushed, accepted and enqueued record the tokens passed to push, the tokens push
\* took into the buffer, and the chunks put on _queue; open_pushes counts the push
\* calls made before any call of close.
NewQueue ==
    [_buffer |-> <<>>, _queue |-> <<>>, _closed |-> FALSE, _flush_task |-> "none",
     window_elapsed |-> FALSE,
     closer |-> [c \in Closers |-> "idle"],
     consumer |-> "idle", delivered |-> <<>>,
     pushed |-> <<>>, open_pushes |-> 0, accepted |-> <<>>, enqueued |-> <<>>,
     residual_flushes |-> 0]

\* stream_research before a request: no producer task. chunks counts the updates
\* astream has yielded, outcome is how its iteration ended.
NoProducer == [pc |-> "none", chunks |-> 0, outcome |-> "none"]

\* search_papers_multi_source before a call. sources is the set it is asked for,
\* source_keys and skipped what its tests of should_skip gave at the time began,
\* results what the searches gave, recorded the calls of record_failure and
\* record_success it made, count the number of calls so far.
NoRetrieval == [pc |-> "none", sources |-> {}, source_keys |-> <<>>, skipped |-> {},
                began |-> 0, results |-> <<>>, recorded |-> {}, returned |-> <<>>,
                count |-> 0]

\* source_tracker at import: no failure recorded; no retrieval in flight. now is
\* time.time(), in seconds from the start; since keeps, per source, every failure
\* recorded after the last record_success or reset_all; tripped holds the sources
\* that reached SOURCE_SKIP_THRESHOLD recent failures and had no success since;
\* asked is the last call of should_skip and answer what it returned; outages
\* keeps, per source, the times of the retrievals in which every request to the
\* source failed.
NoFailures ==
    [_failures |-> [s \in TrackedSources |-> <<>>], now |-> 0,
     since |-> [s \in TrackedSources |-> <<>>],
     tripped |-> {},
     asked |-> None, answer |-> FALSE,
     outages |-> [s \in TrackedSources |-> <<>>],
     retrieval |-> NoRetrieval]

\* extractor_agent before it is called. approved is its list of approved
\* candidates; task[i] is the position of extract_with_limit for approved[i],
\* core[i] and structured[i] those of its two LLM calls; _value is the value of
\* the semaphore; finished lists the tasks in the order they ended; pdf_count is
\* the number of extracted papers the full-text enrichment found a PDF for.
NoExtraction ==
    [pc |-> "none", candidates |-> <<>>, approved |-> <<>>, _value |-> 0,
     task |-> <<>>, core |-> <<>>, structured |-> <<>>, finished |-> <<>>,
     approved_papers |-> <<>>, failed_count |-> 0, pdf_count |-> 0]

\* _normalize_doi before a call; once is what it returns for doi, twice what it
\* returns for that result
NoDoi == [pc |-> "none", doi |-> <<>>, once |-> <<>>, twice |-> <<>>]

\* verify_draft_citations before it is called. extract[i] is the position of the
\* claim-extraction task of section i and claims[i] whether it gave a claim with a
\* citation; verify[k] is the position of bounded_verify for the k-th pair of a
\* claim and a cited paper; _value is the value of the semaphore of verify_claims.
NoSemantic ==
    [pc |-> "none", extract |-> <<>>, claims |-> <<>>, verify |-> <<>>, _value |-> 0,
     results |-> 0]

\* The channels of AgentState the critic reads and writes, before any stage ran
NoCriticState ==
    [final_draft |-> <<>>, approved_papers |-> <<>>, retry_count |-> 0,
     qa_errors |-> <<>>, logs |-> <<>>]

\* The outcome of verify_draft_citations when it gave no summary
NotVerified == [raised |-> TRUE, total |-> 0, entails |-> 0]

\* critic_agent before it is called. state is the AgentState it is given, errors
\* its local list after Layer 1, calls the number of calls of
\* verify_draft_citations it made, summary what the call gave, patch the state
\* with its update merged.
NoCritic ==
    [pc |-> "none", state |-> NoCriticState, errors |-> <<>>, calls |-> 0,
     summary |-> NotVerified, patch |-> NoCriticState]

\* The clock when the queue is constructed: now is time.monotonic() in ms from
\* that moment, _last_flush_time the field __init__ sets, wake the time the sleep
\* of _periodic_flush ends (-1 without a timer task), started_at the time of
\* start(), pushed_at the times the tokens of _buffer were pushed; ticks counts
\* the wakes of the timer, found and flushed tell whether the last wake found
\* tokens in the buffer and whether it flushed them.
NewClock ==
    [now |-> 0, _last_flush_time |-> 0, wake |-> -1, started_at |-> -1,
     pushed_at |-> <<>>, ticks |-> 0, found |-> FALSE, flushed |-> FALSE]

\* search_semantic_scholar before it is called. requests[i] is the call of
\* _fetch_semantic_scholar for the i-th query: the attempts made, the response
\* to the last one, whether the call is pending, returned or raised, and the
\* exception it raised; papers is what the search returns.
NoSearch == [pc |-> "none", requests |-> <<>>, papers |-> <<>>]

\* The two requests that call approve_papers for one thread
Handlers == {"h1", "h2"}

\* A thread that start_research has brought to the interrupt before the
\* extractor, and two approve requests not yet received. next, retry_count and
\* qa_errors are the stored checkpoint; of each handler, snapshot_next is what
\* aget_state gave it, cursor and retry_count are the position and the channel
\* of its run of the graph, status the HTTP status it answered; executed counts
\* the executions of each stage by either run.
NoOverlap ==
    [next |-> {"extractor_agent"}, retry_count |-> 0, qa_errors |-> <<>>,
     handler |-> [h \in Handlers |->
                    [pc |-> "idle", snapshot_next |-> {}, cursor |-> {},
                     retry_count |-> 0, status |-> 0]],
     executed |-> [n \in {"extractor_agent", "writer_agent", "critic_agent"} |-> 0]]

\* deduplicate_papers on entry: nothing iterated, its three locals empty
DedupStart == [papers |-> <<>>, seen_ids |-> {}, seen_titles |-> <<>>, result |-> <<>>,
               paper |-> None, existing |-> None]

Init ==
    /\ values = [t \in ThreadIds |-> NoValues]
    /\ next = [t \in ThreadIds |-> {}]
    /\ call = Idle
    /\ response = NoResponse
    /\ executed = [t \in ThreadIds |-> NoRun]
    /\ lastDraft = [t \in ThreadIds |-> None]
    /\ continues = [t \in ThreadIds |-> 0]
    /\ dedup = DedupStart
    /\ sq = NewQueue
    /\ producer = NoProducer
    /\ tracker = NoFailures
    /\ extraction = NoExtraction
    /\ doi = NoDoi
    /\ semantic = NoSemantic
    /\ critic = NoCritic
    /\ clock = NewClock
    /\ fetch = NoSearch
    /\ overlap = NoOverlap

\* The reducer of the logs and messages channels (operator.add): an update is
\* concatenated to the stored list. Every other channel is replaced.
\* Mutant: the channel declared without its reducer (last writer wins)
AddReducer_replace(old, update) == update

AddReducer(old, update) == old \o update

\* ------------------------------------------------------------------------
\* The graph (backend/workflow.py)
\* ------------------------------------------------------------------------
\* Mutant: the entry router ignores is_continuation
_entry_router_always_planner(state) == "planner_agent"

_entry_router(state) ==
    IF state.is_continuation THEN "writer_agent" ELSE "planner_agent"

\* Mutant: the retry bound compared with <= (one retry too many)
_qa_router_off_by_one(state) ==
    IF state.qa_errors = <<>> THEN "__end__"
    ELSE IF state.retry_count <= MAX_RETRY_COUNT THEN "writer_agent"
    ELSE "__end__"

\* Mutant: the retry edge dropped (the critic always ends the run)
_qa_router_no_retry(state) == "__end__"

_qa_router(state) ==
    IF state.qa_errors = <<>> THEN "__end__"
    ELSE IF state.retry_count < MAX_RETRY_COUNT THEN "writer_agent"
    ELSE "__end__"

\* Targets of a routing decision as snapshot.next
NextOf(target) == IF target = "__end__" THEN {} ELSE {target}

\* Mutant: the graph compiled without interrupt_before
Interrupted_never(t) == FALSE

\* The engine pauses before the extractor unless this step is the first of a resumed run
Interrupted(t) == INTERRUPT_BEFORE \in next[t] /\ ~call.resuming

Running(t) == call.op # "idle" /\ call.thread = t

\* A node completes: its patch is merged into the stored values (logs by
\* concatenation), the successor is stored in next, the execution is counted.
Complete(t, node, patch, succ) ==
    /\ values' = [values EXCEPT ![t] = patch]
    /\ next' = [next EXCEPT ![t] = succ]
    /\ executed' = [executed EXCEPT ![t][node] = @ + 1]
    /\ call' = [call EXCEPT !.resuming = FALSE, !.ran[node] = @ + 1]

\* ------------------------------------------------------------------------
\* Stages (backend/nodes.py)
\* ------------------------------------------------------------------------
\* How many keywords the LLM may return: none, one, or more than MAX_KEYWORDS
KeywordCounts == {0, 1, MAX_KEYWORDS + 1}

planner_agent(t) ==
    /\ Running(t) /\ next[t] = {"planner_agent"}
    /\ \E n \in KeywordCounts :
         LET keywords == [i \in 1..Min(n, MAX_KEYWORDS) |-> i]
         IN Complete(t, "planner_agent",
                     [values[t] EXCEPT !.search_keywords = keywords,
                                       !.logs = AddReducer(@, <<"planner_agent">>)],
                     {"retriever_agent"})
    /\ UNCHANGED <<response, lastDraft, continues>>
    /\ UNCHANGED library_vars

Paper(id) == [paper_id |-> id, is_approved |-> FALSE, core_contribution |-> FALSE]

retriever_agent(t) ==
    /\ Running(t) /\ next[t] = {"retriever_agent"}
    /\ \E n \in 0..MaxPapers :
         LET papers == IF values[t].search_keywords = <<>> THEN <<>>
                       ELSE [i \in 1..n |-> Paper(i)]
         IN Complete(t, "retriever_agent",
                     [values[t] EXCEPT !.candidate_papers = papers,
                                       !.logs = AddReducer(@, <<"retriever_agent">>)],
                     {"extractor_agent"})
    /\ UNCHANGED <<response, lastDraft, continues>>
    /\ UNCHANGED library_vars

\* Indices of the candidates marked is_approved
ApprovedPositions(papers) == {i \in DOMAIN papers : papers[i].is_approved}

extractor_agent(t) ==
    /\ Running(t) /\ next[t] = {"extractor_agent"} /\ ~Interrupted(t)
    /\ LET candidates == values[t].candidate_papers
           approved == ApprovedPositions(candidates)
       IN IF approved = {}
          THEN Complete(t, "extractor_agent",
                        [values[t] EXCEPT !.approved_papers = <<>>,
                                          !.logs = AddReducer(@, <<"extractor_agent">>)],
                        {"writer_agent"})
          ELSE \E ok \in SUBSET approved, pdf_log \in BOOLEAN :
                 LET kept == FilterSeq(candidates, ok)
                     extracted == [i \in DOMAIN kept |->
                                     [kept[i] EXCEPT !.core_contribution = TRUE]]
                     logs == IF pdf_log /\ extracted # <<>>
                             THEN <<"extractor_agent", "extractor_agent">>
                             ELSE <<"extractor_agent">>
                 IN Complete(t, "extractor_agent",
                             [values[t] EXCEPT !.approved_papers = extracted,
                                               !.logs = AddReducer(@, logs)],
                             {"writer_agent"})
    /\ UNCHANGED <<response, lastDraft, continues>>
    /\ UNCHANGED library_vars

\* A draft is its ordered sections; a section is the set of indices N of its
\* {cite:N} markers. What the LLM may write in a section for num_papers papers:
\* no marker, every paper, the first paper only, or an index past the last paper.
SectionChoices(num_papers) == {{}, 1..num_papers, {1}, {num_papers + 1}}

\* The drafts the LLM may return: one section of any kind, or two sections of
\* which the second has no marker
Drafts(num_papers) ==
    {<<c>> : c \in SectionChoices(num_papers)}
    \cup {<<1..num_papers, {}>>}

PapersWithContributions(state) ==
    FilterSeq(state.approved_papers,
              {i \in DOMAIN state.approved_papers : state.approved_papers[i].core_contribution})

\* Mutant: the writer never takes the retry path
IsRetry_never(state) == FALSE

\* is_retry = retry_count > 0 and qa_errors
IsRetry(state) == state.retry_count > 0 /\ state.qa_errors # <<>>

\* use_single_call = is_retry or is_continuation
UseSingleCall(state) == IsRetry(state) \/ state.is_continuation

\* The addenda appended to DRAFT_GENERATION_SYSTEM on the single-call path
Addenda(state) ==
    (IF state.is_continuation /\ state.messages # <<>> THEN {"revision"} ELSE {})
    \cup (IF IsRetry(state) THEN {"retry"} ELSE {})

\* One execution of the writer on state that returns draft: the path it takes
\* and the completions it makes (the outline and one per section of the
\* outline on the fresh path, one on the single-call path)
WriterRun(state, draft) ==
    IF PapersWithContributions(state) = <<>>
    THEN [NoWriter EXCEPT !.mode = "no_papers"]
    ELSE IF UseSingleCall(state)
    THEN [NoWriter EXCEPT !.mode = "single_call", !.addenda = Addenda(state),
                          !.llm_calls = 1]
    ELSE [NoWriter EXCEPT !.mode = "fresh", !.llm_calls = 1 + Len(draft)]

writer_agent(t) ==
    /\ Running(t) /\ next[t] = {"writer_agent"}
    /\ \E draft \in Drafts(Len(PapersWithContributions(values[t]))) :
          LET final_draft == IF PapersWithContributions(values[t]) = <<>> THEN None
                             ELSE Some(draft)
          IN /\ values' = [values EXCEPT ![t] =
                             [@ EXCEPT !.final_draft = final_draft,
                                       !.logs = AddReducer(@, <<"writer_agent">>)]]
             /\ lastDraft' = [lastDraft EXCEPT ![t] = final_draft]
             /\ call' = [call EXCEPT
                           !.resuming = FALSE,
                           !.ran["writer_agent"] = @ + 1,
                           !.writer = [WriterRun(values[t], draft) EXCEPT
                                         !.after_critic = call.ran["critic_agent"] > 0]]
    /\ next' = [next EXCEPT ![t] = {"critic_agent"}]
    /\ executed' = [executed EXCEPT ![t]["writer_agent"] = @ + 1]
    /\ UNCHANGED <<response, continues>>
    /\ UNCHANGED library_vars

Error(kind, section, idx) == [kind |-> kind, section |-> section, idx |-> idx]

RECURSIVE SectionErrors(_, _, _)
\* Layer 1, the loop over the sections from section i on
SectionErrors(draft, i, valid) ==
    IF i > Len(draft) THEN <<>>
    ELSE LET hallucinated == SortedSeq(draft[i] \ valid)
         IN [k \in DOMAIN hallucinated |-> Error("hallucinated", i, hallucinated[k])]
            \o (IF draft[i] = {} THEN <<Error("no_citations", i, 0)>> ELSE <<>>)
            \o SectionErrors(draft, i + 1, valid)

\* Mutant: Layer 1 without the pass over the papers that were never cited
StructuralErrors_no_missing(draft, num_papers) ==
    SectionErrors(draft, 1, 1..num_papers)

\* Layer 1 of the critic: the structural errors of a draft against num_papers papers
StructuralErrors(draft, num_papers) ==
    LET valid == 1..num_papers
        cited == UNION {draft[i] : i \in DOMAIN draft}
        missing == SortedSeq(valid \ cited)
    IN SectionErrors(draft, 1, valid)
       \o [k \in DOMAIN missing |-> Error("missing", 0, missing[k])]

\* Outcomes of verify_draft_citations: it raises, or returns a summary
Summaries == {[raised |-> TRUE, total |-> 0, entails |-> 0]}
             \cup {[raised |-> FALSE, total |-> n, entails |-> e] :
                     n \in 0..MaxVerifications, e \in 0..MaxVerifications}

\* Mutant: a ratio equal to the threshold fails as well
BelowEntailmentRatio_inclusive(summary) == 5 * summary.entails <= 4 * summary.total

\* entails_count / total_verifications < MIN_ENTAILMENT_RATIO (0.8)
BelowEntailmentRatio(summary) == 5 * summary.entails < 4 * summary.total

\* Mutant: a critic that clears retry_count when the draft passes
CriticPatch_resets_on_pass(state, summary) ==
    IF state.final_draft = None
    THEN [state EXCEPT !.qa_errors = <<>>, !.logs = AddReducer(@, <<"critic_agent">>)]
    ELSE LET draft == state.final_draft[1]
             num_papers == Len(state.approved_papers)
             errors == StructuralErrors(draft, num_papers)
             failed == summary.total - summary.entails
         IN IF errors # <<>>
            THEN [state EXCEPT !.qa_errors = errors,
                               !.retry_count = @ + 1,
                               !.logs = AddReducer(@, <<"critic_agent">>)]
            ELSE IF /\ CLAIM_VERIFICATION_ENABLED /\ num_papers > 0
                    /\ ~summary.raised /\ summary.total > 0
                    /\ BelowEntailmentRatio(summary)
            THEN [state EXCEPT !.qa_errors = [k \in 1..Min(3, failed) |->
                                                Error("unsupported", 0, k)],
                               !.retry_count = @ + 1,
                               !.logs = AddReducer(@, <<"critic_agent">>)]
            ELSE [state EXCEPT !.qa_errors = <<>>, !.retry_count = 0,
                               !.logs = AddReducer(@, <<"critic_agent">>)]

\* The state patch the critic returns for a draft, given the outcome of Layer 2
CriticPatch(state, summary) ==
    IF state.final_draft = None
    THEN [state EXCEPT !.qa_errors = <<>>, !.logs = AddReducer(@, <<"critic_agent">>)]
    ELSE LET draft == state.final_draft[1]
             num_papers == Len(state.approved_papers)
             errors == StructuralErrors(draft, num_papers)
             failed == summary.total - summary.entails
         IN IF errors # <<>>
            THEN [state EXCEPT !.qa_errors = errors,
                               !.retry_count = @ + 1,
                               !.logs = AddReducer(@, <<"critic_agent">>)]
            ELSE IF /\ CLAIM_VERIFICATION_ENABLED /\ num_papers > 0
                    /\ ~summary.raised /\ summary.total > 0
                    /\ BelowEntailmentRatio(summary)
            THEN [state EXCEPT !.qa_errors = [k \in 1..Min(3, failed) |->
                                                Error("unsupported", 0, k)],
                               !.retry_count = @ + 1,
                               !.logs = AddReducer(@, <<"critic_agent">>)]
            ELSE [state EXCEPT !.qa_errors = <<>>, !.logs = AddReducer(@, <<"critic_agent">>)]

critic_agent(t) ==
    /\ Running(t) /\ next[t] = {"critic_agent"}
    /\ \E summary \in Summaries :
         /\ summary.entails <= summary.total
         /\ LET patch == CriticPatch(values[t], summary)
                ok == patch.qa_errors = <<>>
            IN /\ values' = [values EXCEPT ![t] = patch]
               /\ next' = [next EXCEPT ![t] = NextOf(_qa_router(patch))]
               /\ executed' = [executed EXCEPT ![t]["critic_agent"] = @ + 1]
               /\ call' = [call EXCEPT !.resuming = FALSE, !.ran["critic_agent"] = @ + 1,
                                       !.failed = IF ok THEN @ ELSE @ + 1,
                                       !.passed = IF ok THEN @ + 1 ELSE @]
    /\ UNCHANGED <<response, lastDraft, continues>>
    /\ UNCHANGED library_vars

\* A stage whose LLM call fails raises: the run is abandoned at the last checkpoint
\* and the handler answers 500 (the stream producer emits an error event instead)
Abort(t) ==
    /\ response' = IF call.op = "stream" THEN Response("stream", t, 200, "error")
                   ELSE Response(call.op, t, 500, "exception")
    /\ call' = Idle
    /\ UNCHANGED <<values, next, executed, lastDraft, continues>>

\* The stages that fail the run when their LLM call fails: the planner always
\* calls the LLM, the writer when there is a paper to write about
stage_raises(t) ==
    /\ Running(t)
    /\ \/ next[t] = {"planner_agent"}
       \/ next[t] = {"writer_agent"} /\ PapersWithContributions(values[t]) # <<>>
    /\ Abort(t)
    /\ UNCHANGED library_vars

\* ------------------------------------------------------------------------
\* Request adapter (app/main.py)
\* ------------------------------------------------------------------------
start_research ==
    /\ call.op = "idle"
    /\ ~Exists("t1")
    /\ LET input == [exists |-> TRUE,
                     user_query |-> 0,
                     search_keywords |-> <<>>,
                     candidate_papers |-> <<>>,
                     approved_papers |-> <<>>,
                     final_draft |-> None,
                     qa_errors |-> <<>>,
                     retry_count |-> 0,
                     logs |-> <<>>,
                     messages |-> <<[role |-> "user", action |-> "start_research",
                                     content |-> 0]>>,
                     is_continuation |-> FALSE]
       IN /\ values' = [values EXCEPT !["t1"] = input]
          /\ next' = [next EXCEPT !["t1"] = NextOf(_entry_router(input))]
          /\ call' = [Idle EXCEPT !.op = "start", !.thread = "t1"]
    /\ response' = NoResponse
    /\ UNCHANGED <<executed, lastDraft, continues>>
    /\ UNCHANGED library_vars

\* A handler answers without touching the store
Reply(op, t, status, detail) ==
    /\ response' = Response(op, t, status, detail)
    /\ UNCHANGED <<values, next, call, executed, lastDraft, continues>>

\* approve_papers: the candidates with is_approved set on those named in paper_ids
MarkApproved(candidates, paper_ids) ==
    [i \in DOMAIN candidates |->
        IF candidates[i].paper_id \in paper_ids
        THEN [candidates[i] EXCEPT !.is_approved = TRUE]
        ELSE candidates[i]]

ApprovedCount(candidates, paper_ids) ==
    Cardinality({i \in DOMAIN candidates : candidates[i].paper_id \in paper_ids})

\* Mutant: the handler does not look at snapshot.next
ApproveVerdict_no_wait_check(waiting, t, paper_ids) ==
    IF ~Exists(t) THEN "not_found"
    ELSE IF ApprovedCount(values[t].candidate_papers, paper_ids) = 0 THEN "no_match"
    ELSE "ok"

\* approve_papers: the guards, in the order of the handler; "ok" when all pass
ApproveVerdict(waiting, t, paper_ids) ==
    IF ~Exists(t) THEN "not_found"
    ELSE IF waiting \notin next[t] THEN "not_waiting"
    ELSE IF ApprovedCount(values[t].candidate_papers, paper_ids) = 0 THEN "no_match"
    ELSE "ok"

StatusOf(verdict) ==
    CASE verdict = "ok" -> 200
      [] verdict = "not_found" -> 404
      [] OTHER -> 400

\* approve_papers, up to the start of the resumed run. `waiting` is the node
\* name the handler expects in snapshot.next.
ApproveHandler(waiting, t, paper_ids) ==
    /\ call.op = "idle"
    /\ LET verdict == ApproveVerdict(waiting, t, paper_ids)
       IN IF verdict # "ok"
          THEN /\ response' = [Response("approve", t, StatusOf(verdict), verdict) EXCEPT
                                  \* how many candidates the request named
                                  !.matched = IF Exists(t)
                                              THEN ApprovedCount(values[t].candidate_papers,
                                                                 paper_ids)
                                              ELSE 0]
               /\ UNCHANGED <<values, next, call, executed, lastDraft, continues>>
          ELSE /\ values' = [values EXCEPT ![t].candidate_papers =
                                MarkApproved(@, paper_ids)]
               \* aupdate_state on behalf of the retriever: its successor is next
               /\ next' = [next EXCEPT ![t] = {"extractor_agent"}]
               /\ call' = [Idle EXCEPT !.op = "approve", !.thread = t, !.resuming = TRUE,
                                       !.log_count = Len(values[t].logs),
                                       !.approved_count =
                                           ApprovedCount(values[t].candidate_papers, paper_ids),
                                       !.before = values[t]]
               /\ response' = NoResponse
               /\ UNCHANGED <<executed, lastDraft, continues>>
    /\ UNCHANGED library_vars

\* The handler of src/app/main.py
approve_papers(t, paper_ids) == ApproveHandler(WAITING_FOR_APPROVAL, t, paper_ids)

\* The handler the tests drive (backend.main): it waits at the interrupt of the graph
backend_approve_papers(t, paper_ids) == ApproveHandler(INTERRUPT_BEFORE, t, paper_ids)

Message(role, action, text) == [role |-> role, action |-> action, content |-> text]

\* Mutant: the handler does not require a draft
ContinueVerdict_no_draft_check(t) ==
    IF ~Exists(t) THEN "not_found" ELSE "ok"

\* continue_research: the guards
ContinueVerdict(t) ==
    IF ~Exists(t) THEN "not_found"
    ELSE IF values[t].final_draft = None THEN "no_draft"
    ELSE "ok"

\* continue_research, up to the start of the run. The text of the k-th follow-up
\* message of a session is k (the query of start is 0).
continue_research(t) ==
    /\ call.op = "idle"
    /\ LET verdict == ContinueVerdict(t)
           text == continues[t] + 1
       IN IF verdict # "ok"
          THEN Reply("continue", t, StatusOf(verdict), verdict)
          ELSE LET patched == [values[t] EXCEPT
                                 !.user_query = text,
                                 !.messages = AddReducer(@, <<Message("user", "continue_research",
                                                                     text)>>),
                                 !.is_continuation = TRUE,
                                 !.qa_errors = <<>>,
                                 !.retry_count = 0]
               IN /\ continues[t] < MaxContinues
                  /\ values' = [values EXCEPT ![t] = patched]
                  \* aupdate_state as_node="__start__": the entry router picks the successor
                  /\ next' = [next EXCEPT ![t] = NextOf(_entry_router(patched))]
                  /\ call' = [Idle EXCEPT !.op = "continue", !.thread = t, !.resuming = TRUE,
                                          !.log_count = Len(values[t].logs),
                                          !.text = text,
                                          !.before = values[t]]
                  /\ continues' = [continues EXCEPT ![t] = @ + 1]
                  /\ response' = NoResponse
                  /\ UNCHANGED <<executed, lastDraft>>
    /\ UNCHANGED library_vars

\* stream_research: the producer resumes the graph from the stored cursor
stream_research(t) ==
    /\ call.op = "idle"
    /\ IF ~Exists(t)
       THEN Reply("stream", t, 404, "not_found")
       ELSE /\ call' = [Idle EXCEPT !.op = "stream", !.thread = t, !.resuming = TRUE,
                                    !.log_count = Len(values[t].logs),
                                    !.before = values[t]]
            /\ response' = NoResponse
            /\ UNCHANGED <<values, next, executed, lastDraft, continues>>
    /\ UNCHANGED library_vars

\* graph.ainvoke / graph.astream returns: the graph reached END or the interrupt
RunEnded(t) == next[t] = {} \/ Interrupted(t)

\* The candidates marked is_approved, in the order of candidate_papers
ApprovedList(candidates) == FilterSeq(candidates, ApprovedPositions(candidates))

\* Post-processing of one section: a {cite:N} with 1 <= N <= max_index becomes [N],
\* any other is removed; cited_paper_ids are the ids at the sorted distinct indices
\* found as [N] in the content.
PostProcessSection(section, approved_list) ==
    LET max_index == Len(approved_list)
        cited_indices == SortedSeq({idx \in section : 1 <= idx /\ idx <= max_index})
    IN [content |-> {idx \in section : 1 <= idx /\ idx <= max_index},
        cited_paper_ids |-> [k \in DOMAIN cited_indices |->
                                approved_list[cited_indices[k]].paper_id]]

\* The draft approve_papers and continue_research return
PostProcess(state) ==
    IF state.final_draft = None THEN None
    ELSE LET draft == state.final_draft[1]
             approved_list == ApprovedList(state.candidate_papers)
         IN Some([i \in DOMAIN draft |-> PostProcessSection(draft[i], approved_list)])

\* The rest of each handler once its run of the graph has returned. continue_research
\* first stores the assistant message; the stream producer emits the done event.
handler_return ==
    /\ call.op # "idle"
    /\ RunEnded(call.thread)
    /\ values' = IF call.op = "continue"
                 THEN [values EXCEPT ![call.thread].messages =
                          AddReducer(@, <<Message("assistant", "draft_updated", call.text)>>)]
                 ELSE values
    /\ response' = [Response(call.op, call.thread, 200,
                             IF call.op = "stream" THEN "done" ELSE "ok")
                      EXCEPT !.final_draft = IF call.op \in {"approve", "continue"}
                                             THEN PostProcess(values[call.thread])
                                             ELSE None]
    /\ call' = Idle
    /\ UNCHANGED <<next, executed, lastDraft, continues>>
    /\ UNCHANGED library_vars

get_status(t) ==
    /\ call.op = "idle"
    /\ IF ~Exists(t)
       THEN Reply("status", t, 404, "not_found")
       ELSE Reply("status", t, 200, "ok")
    /\ UNCHANGED library_vars

\* The steps of the graph engine and of the handlers that wait for it
Engine ==
    \/ \E t \in ThreadIds : planner_agent(t)
    \/ \E t \in ThreadIds : retriever_agent(t)
    \/ \E t \in ThreadIds : extractor_agent(t)
    \/ \E t \in ThreadIds : writer_agent(t)
    \/ \E t \in ThreadIds : critic_agent(t)
    \/ \E t \in ThreadIds : stage_raises(t)
    \/ handler_return

\* Requests other than approve
Requests ==
    \/ start_research
    \/ \E t \in ThreadIds : continue_research(t)
    \/ \E t \in ThreadIds : stream_research(t)
    \/ \E t \in ThreadIds : get_status(t)

\* src/app/main.py serving the graph of src/backend/workflow.py
Next ==
    \/ Engine
    \/ Requests
    \/ \E t \in ThreadIds, paper_ids \in SUBSET PaperIds : approve_papers(t, paper_ids)

Spec == Init /\ [][Next]_vars

\* The adapter the tests drive, serving the same graph
NextBackend ==
    \/ Engine
    \/ Requests
    \/ \E t \in ThreadIds, paper_ids \in SUBSET PaperIds : backend_approve_papers(t, paper_ids)

SpecBackend == Init /\ [][NextBackend]_vars

\* The event loop runs every awaited stage and handler to its end
LiveSpecBackend == SpecBackend /\ WF_vars(Engine)

\* ------------------------------------------------------------------------
\* deduplicate_papers (backend/utils/scholar_api.py)
\* ------------------------------------------------------------------------
\* Titles are character strings over a small alphabet: a letter in both cases,
\* a second letter, the space and a punctuation mark.
Lower(c) == IF c = "A" THEN "a" ELSE c

IsSpace(c) == c = " "

IsAlnum(c) == c \in {"A", "a", "b"}

RECURSIVE LStrip(_)
LStrip(s) == IF s # <<>> /\ IsSpace(Head(s)) THEN LStrip(Tail(s)) ELSE s

RECURSIVE RStrip(_)
RStrip(s) ==
    IF s # <<>> /\ IsSpace(s[Len(s)]) THEN RStrip(SubSeq(s, 1, Len(s) - 1)) ELSE s

\* title.lower().strip()
LowerStrip(s) == RStrip(LStrip([i \in DOMAIN s |-> Lower(s[i])]))

RECURSIVE KeepAlnumOrSpace(_)
\* "".join(c for c in title if c.isalnum() or c.isspace())
KeepAlnumOrSpace(s) ==
    IF s = <<>> THEN <<>>
    ELSE IF IsAlnum(Head(s)) \/ IsSpace(Head(s))
         THEN <<Head(s)>> \o KeepAlnumOrSpace(Tail(s))
         ELSE KeepAlnumOrSpace(Tail(s))

RECURSIVE CollapseSpaces(_)
\* a string without leading space: every run of spaces becomes one space
CollapseSpaces(s) ==
    IF s = <<>> THEN <<>>
    ELSE IF IsSpace(Head(s))
         THEN (IF LStrip(s) = <<>> THEN <<>> ELSE <<" ">> \o CollapseSpaces(LStrip(s)))
         ELSE <<Head(s)>> \o CollapseSpaces(Tail(s))

\* " ".join(title.split())
SplitJoin(s) == CollapseSpaces(LStrip(s))

NormalizeTitle(title) == SplitJoin(KeepAlnumOrSpace(LowerStrip(title)))

\* The titles the sources return: two spellings of one title, and another title
Titles == {<<"A", " ", "b">>, <<" ", "a", "!", " ", " ", "b">>, <<"a", "b">>}

DedupPaperIds == {"p1", "p2", "p3"}

Sources == {"semantic_scholar", "arxiv", "pubmed"}

DedupPapers == [paper_id : DedupPaperIds, title : Titles, source : Sources]

\* [p for p in result if p.paper_id != paper_id]
RECURSIVE WithoutId(_, _)
WithoutId(result, paper_id) ==
    IF result = <<>> THEN <<>>
    ELSE IF Head(result).paper_id # paper_id
         THEN <<Head(result)>> \o WithoutId(Tail(result), paper_id)
         ELSE WithoutId(Tail(result), paper_id)

\* Mutant: the loop without the seen_ids test
DedupStep_no_id_check(d, paper) ==
    LET seen == [d EXCEPT !.papers = Append(@, paper), !.paper = Some(paper),
                          !.existing = None, !.seen_ids = @ \cup {paper.paper_id}]
        normalized_title == NormalizeTitle(paper.title)
    IN IF normalized_title \in DOMAIN d.seen_titles
       THEN LET existing == d.seen_titles[normalized_title]
            IN IF paper.source = "semantic_scholar"
               THEN [seen EXCEPT !.existing = Some(existing),
                                 !.seen_titles[normalized_title] = paper,
                                 !.result = Append(WithoutId(@, existing.paper_id), paper)]
               ELSE [seen EXCEPT !.existing = Some(existing)]
       ELSE [seen EXCEPT !.seen_titles = (normalized_title :> paper) @@ @,
                         !.result = Append(@, paper)]

\* Mutant: the title branch without its continue (it falls through to the append)
DedupStep_no_continue(d, paper) ==
    IF paper.paper_id \in d.seen_ids
    THEN [d EXCEPT !.papers = Append(@, paper), !.paper = Some(paper), !.existing = None]
    ELSE LET seen == [d EXCEPT !.papers = Append(@, paper), !.paper = Some(paper),
                               !.existing = None, !.seen_ids = @ \cup {paper.paper_id}]
             normalized_title == NormalizeTitle(paper.title)
         IN IF normalized_title \in DOMAIN d.seen_titles
            THEN LET existing == d.seen_titles[normalized_title]
                 IN IF paper.source = "semantic_scholar"
                    THEN [seen EXCEPT !.existing = Some(existing),
                                      !.seen_titles[normalized_title] = paper,
                                      !.result = Append(Append(WithoutId(@, existing.paper_id),
                                                               paper), paper)]
                    ELSE [seen EXCEPT !.existing = Some(existing),
                                      !.seen_titles[normalized_title] = paper,
                                      !.result = Append(@, paper)]
            ELSE [seen EXCEPT !.seen_titles = (normalized_title :> paper) @@ @,
                              !.result = Append(@, paper)]

\* One iteration of the for loop of deduplicate_papers, on `paper`. The fields
\* paper and existing are the locals of the iteration (existing is set on a
\* title collision only).
DedupStep(d, paper) ==
    IF paper.paper_id \in d.seen_ids
    THEN [d EXCEPT !.papers = Append(@, paper), !.paper = Some(paper), !.existing = None]
    ELSE LET seen == [d EXCEPT !.papers = Append(@, paper), !.paper = Some(paper),
                               !.existing = None, !.seen_ids = @ \cup {paper.paper_id}]
             normalized_title == NormalizeTitle(paper.title)
         IN IF normalized_title \in DOMAIN d.seen_titles
            THEN LET existing == d.seen_titles[normalized_title]
                 IN IF paper.source = "semantic_scholar"
                    THEN [seen EXCEPT !.existing = Some(existing),
                                      !.seen_titles[normalized_title] = paper,
                                      !.result = Append(WithoutId(@, existing.paper_id), paper)]
                    ELSE [seen EXCEPT !.existing = Some(existing)]
            ELSE [seen EXCEPT !.seen_titles = (normalized_title :> paper) @@ @,
                              !.result = Append(@, paper)]

RECURSIVE DedupLoop(_, _)
DedupLoop(d, papers) ==
    IF papers = <<>> THEN d ELSE DedupLoop(DedupStep(d, Head(papers)), Tail(papers))

\* deduplicate_papers(papers): the result after the loop over the whole list
deduplicate_papers(papers) == DedupLoop(DedupStart, papers).result

\* The loop of a call of deduplicate_papers takes its next paper; the list
\* iterated so far is the argument of the call that returns here.
deduplicate_papers_loop ==
    /\ Len(dedup.papers) < MaxDedupLen
    /\ \E paper \in DedupPapers : dedup' = DedupStep(dedup, paper)
    /\ UNCHANGED <<workflow_vars, sq, producer, util_vars>>

NextDedup == deduplicate_papers_loop

SpecDedup == Init /\ [][NextDedup]_vars

\* ------------------------------------------------------------------------
\* approve_papers (app/main.py): two overlapping calls for one thread
\* ------------------------------------------------------------------------
\* approve_papers from its entry to its first await after the guards: the
\* snapshot is read and tested; waiting is the node name it looks for. The
\* request names a candidate of the thread.
ApproveGetsState(waiting, h) ==
    /\ overlap.handler[h].pc = "idle"
    /\ overlap' =
         IF waiting \notin overlap.next
         THEN [overlap EXCEPT !.handler[h].pc = "rejected",
                              !.handler[h].snapshot_next = overlap.next,
                              !.handler[h].status = 400]
         ELSE [overlap EXCEPT !.handler[h].pc = "guard_passed",
                              !.handler[h].snapshot_next = overlap.next]
    /\ UNCHANGED not_overlap

\* The handler that waits at the interrupt of the graph
approve_gets_state(h) == ApproveGetsState(INTERRUPT_BEFORE, h)

\* aupdate_state stores the marked candidates, which leaves next as it is, and
\* ainvoke(None) starts a run from the stored checkpoint
approve_resumes(h) ==
    /\ overlap.handler[h].pc = "guard_passed"
    /\ overlap' = [overlap EXCEPT !.handler[h].pc = "running",
                                  !.handler[h].cursor = overlap.next,
                                  !.handler[h].retry_count = overlap.retry_count]
    /\ UNCHANGED not_overlap

\* The run of handler h executes the stage at its cursor and stores the
\* checkpoint; the critic passes or fails the draft
approve_run_step(h) ==
    /\ overlap.handler[h].pc = "running"
    /\ \E node \in overlap.handler[h].cursor, qa_failed \in BOOLEAN :
          LET retry_count == IF node = "critic_agent" /\ qa_failed
                             THEN overlap.handler[h].retry_count + 1
                             ELSE overlap.handler[h].retry_count
              qa_errors == IF node = "critic_agent" /\ qa_failed
                           THEN <<Error("no_citations", 1, 0)>> ELSE <<>>
              succ == IF node = "extractor_agent" THEN {"writer_agent"}
                      ELSE IF node = "writer_agent" THEN {"critic_agent"}
                      ELSE NextOf(_qa_router([qa_errors |-> qa_errors,
                                              retry_count |-> retry_count]))
          IN /\ node # "critic_agent" => ~qa_failed
             /\ overlap' = [overlap EXCEPT
                              !.next = succ,
                              !.retry_count = retry_count,
                              !.qa_errors = qa_errors,
                              !.executed[node] = @ + 1,
                              !.handler[h].cursor = succ,
                              !.handler[h].retry_count = retry_count]
    /\ UNCHANGED not_overlap

\* ainvoke has returned and the handler answers 200
approve_returns(h) ==
    /\ overlap.handler[h].pc = "running"
    /\ overlap.handler[h].cursor = {}
    /\ overlap' = [overlap EXCEPT !.handler[h].pc = "done", !.handler[h].status = 200]
    /\ UNCHANGED not_overlap

NextOverlap ==
    \/ \E h \in Handlers : approve_gets_state(h)
    \/ \E h \in Handlers : approve_resumes(h)
    \/ \E h \in Handlers : approve_run_step(h)
    \/ \E h \in Handlers : approve_returns(h)

SpecOverlap == Init /\ [][NextOverlap]_vars

\* ------------------------------------------------------------------------
\* StreamingEventQueue (backend/utils/event_queue.py)
\* ------------------------------------------------------------------------
\* Strings are sequences of characters. The source also lists the three
\* full-width marks, which are treated as "." "!" "?" are.
SEMANTIC_BOUNDARIES == {".", "!", "?", "\n"}

RECURSIVE Join(_)
\* "".join(strings)
Join(strings) == IF strings = <<>> THEN <<>> ELSE Head(strings) \o Join(Tail(strings))

_should_flush_on_boundary(token) == \E i \in DOMAIN token : token[i] \in SEMANTIC_BOUNDARIES

\* Mutant: the merged chunk is put on the queue but the buffer is not cleared
Flush_keeps_buffer(q) ==
    [q EXCEPT !._queue = Append(@, Some(Join(q._buffer))),
              !.enqueued = Append(@, Join(q._buffer)),
              !.window_elapsed = FALSE]

\* The buffer is merged into one chunk and put on the (unbounded) queue
Flush(q) ==
    [q EXCEPT !._queue = Append(@, Some(Join(q._buffer))),
              !.enqueued = Append(@, Join(q._buffer)),
              !._buffer = <<>>,
              !.window_elapsed = FALSE]

_try_flush(q, force) ==
    IF q._buffer = <<>> THEN q
    ELSE IF force \/ q.window_elapsed THEN Flush(q)
    ELSE q

\* push(token), as a function of the queue
Push(q, token) ==
    LET called == [q EXCEPT !.pushed = Append(@, token)]
    IN IF q._closed THEN called
       ELSE LET buffered == [called EXCEPT !._buffer = Append(@, token),
                                           !.accepted = Append(@, token)]
            IN IF _should_flush_on_boundary(token)
               THEN _try_flush(buffered, TRUE)
               ELSE buffered

\* Mutant: close without its test of _closed
CloseReturnsAtOnce_never(q) == FALSE

\* close: the test of _closed at its entry
CloseReturnsAtOnce(q) == q._closed

\* Mutant: close ends without putting the sentinel
CloseTail_no_sentinel(q) ==
    IF q._buffer # <<>>
    THEN [Flush(q) EXCEPT !.residual_flushes = @ + 1]
    ELSE q

\* close, after the timer task was awaited: the residual buffer, then the sentinel
CloseTail(q) ==
    LET flushed == IF q._buffer # <<>>
                   THEN [Flush(q) EXCEPT !.residual_flushes = @ + 1]
                   ELSE q
    IN [flushed EXCEPT !._queue = Append(@, None)]

\* The tokens a caller pushes: two letters and a token with a boundary
Tokens == {<<"a">>, <<"b">>, <<"c", ".">>}

\* start(): the timer task is created once; created on a closed queue it ends at
\* its first test of _closed
start ==
    /\ sq._flush_task = "none"
    /\ sq' = [sq EXCEPT !._flush_task = IF sq._closed THEN "finished" ELSE "sleeping"]
    /\ UNCHANGED <<workflow_vars, dedup, producer, util_vars>>

\* 200 ms have passed since the last flush
window_elapses ==
    /\ ~sq.window_elapsed
    /\ sq' = [sq EXCEPT !.window_elapsed = TRUE]
    /\ UNCHANGED <<workflow_vars, dedup, producer, util_vars>>

\* _periodic_flush wakes from its sleep
_periodic_flush ==
    /\ sq._flush_task = "sleeping"
    /\ sq' = _try_flush(sq, FALSE)
    /\ UNCHANGED <<workflow_vars, dedup, producer, util_vars>>

push(token) ==
    /\ Len(sq.pushed) < MaxPushes
    /\ sq' = [Push(sq, token) EXCEPT
                 !.open_pushes = IF \A c \in Closers : sq.closer[c] = "idle"
                                 THEN @ + 1 ELSE @]
    /\ UNCHANGED <<workflow_vars, dedup, producer, util_vars>>

\* close(), up to its first suspension: with a timer task it cancels the task and
\* awaits it, without one it runs to its end
Close(q, c) ==
    IF CloseReturnsAtOnce(q)
    THEN [q EXCEPT !.closer[c] = IF \E d \in Closers : q.closer[d] = "awaiting"
                                  THEN "returned_while_closing"
                                  ELSE "returned_after_close"]
    ELSE IF q._flush_task # "none"
         THEN [q EXCEPT !._closed = TRUE, !._flush_task = "cancelled",
                        !.closer[c] = "awaiting"]
         ELSE [CloseTail([q EXCEPT !._closed = TRUE]) EXCEPT !.closer[c] = "done"]

close(c) ==
    /\ sq.closer[c] = "idle"
    /\ sq' = Close(sq, c)
    /\ UNCHANGED <<workflow_vars, dedup, producer, util_vars>>

\* close() resumes once the cancelled timer task has ended
close_resumes(c) ==
    /\ sq.closer[c] = "awaiting"
    /\ sq' = [CloseTail([sq EXCEPT !._flush_task = "none"]) EXCEPT !.closer[c] = "done"]
    /\ UNCHANGED <<workflow_vars, dedup, producer, util_vars>>

IsSentinel(chunk) == chunk = None

\* consume(): one turn of its loop; the first turn starts the iterator
consume ==
    /\ sq.consumer # "terminated"
    /\ IF sq._queue = <<>>
       THEN /\ sq.consumer = "idle"
            /\ sq' = [sq EXCEPT !.consumer = "waiting"]
       ELSE LET chunk == Head(sq._queue)
            IN sq' = [sq EXCEPT !._queue = Tail(@),
                                !.consumer = IF IsSentinel(chunk) THEN "terminated"
                                             ELSE "waiting",
                                !.delivered = IF IsSentinel(chunk) THEN @
                                              ELSE Append(@, chunk[1])]
    /\ UNCHANGED <<workflow_vars, dedup, producer, util_vars>>

\* A queue used by callers that push, close and consume in any order
NextQueue ==
    \/ start
    \/ window_elapses
    \/ _periodic_flush
    \/ \E token \in Tokens : push(token)
    \/ \E c \in Closers : close(c)
    \/ \E c \in Closers : close_resumes(c)
    \/ consume

SpecQueue == Init /\ [][NextQueue]_vars

\* The event loop resumes a close whose awaited task has ended, and the consumer
\* iterates whenever there is something to get
LiveSpecQueue ==
    SpecQueue /\ WF_vars(consume) /\ WF_vars(\E c \in Closers : close_resumes(c))

\* ------------------------------------------------------------------------
\* StreamingEventQueue with its clock: the timer task between start and close
\* ------------------------------------------------------------------------
\* The clock is read at multiples of ClockStep
ClockStep == 50

\* The queue as _try_flush sees it at time now: elapsed_ms >= FLUSH_INTERVAL_MS
AtTime(q, c) ==
    [q EXCEPT !.window_elapsed = (c.now - c._last_flush_time >= FLUSH_INTERVAL_MS)]

\* The clock after a call that took the queue from q to after: a flush sets
\* _last_flush_time = now and empties the buffer
Timed(q, after, c) ==
    IF Len(after.enqueued) > Len(q.enqueued)
    THEN [c EXCEPT !._last_flush_time = c.now, !.pushed_at = <<>>]
    ELSE c

\* start(): the timer task is created and begins its first sleep
timed_start ==
    /\ sq._flush_task = "none"
    /\ sq' = [sq EXCEPT !._flush_task = "sleeping"]
    /\ clock' = [clock EXCEPT !.wake = clock.now + FLUSH_INTERVAL_MS,
                              !.started_at = clock.now]
    /\ UNCHANGED not_timed_queue

\* Time passes, not beyond the end of the timer's sleep
clock_advances ==
    /\ clock.now + ClockStep <= MaxClock
    /\ clock.wake >= 0 => clock.now + ClockStep <= clock.wake
    /\ clock' = [clock EXCEPT !.now = @ + ClockStep]
    /\ UNCHANGED sq
    /\ UNCHANGED not_timed_queue

\* push(token) at time now
timed_push(token) ==
    /\ Len(sq.pushed) < MaxPushes
    /\ LET after == Push(AtTime(sq, clock), token)
       IN /\ sq' = after
          /\ clock' = Timed(sq, after, [clock EXCEPT !.pushed_at = Append(@, clock.now)])
    /\ UNCHANGED not_timed_queue

\* _periodic_flush: the sleep ends, _try_flush(force=False) runs and the next
\* sleep begins
timed_periodic_flush ==
    /\ sq._flush_task = "sleeping"
    /\ clock.now = clock.wake
    /\ LET after == _try_flush(AtTime(sq, clock), FALSE)
       IN /\ sq' = after
          /\ clock' = [Timed(sq, after, clock) EXCEPT
                         !.wake = clock.now + FLUSH_INTERVAL_MS,
                         !.ticks = @ + 1,
                         !.found = sq._buffer # <<>>,
                         !.flushed = Len(after.enqueued) > Len(sq.enqueued)]
    /\ UNCHANGED not_timed_queue

NextTimedQueue ==
    \/ timed_start
    \/ clock_advances
    \/ \E token \in Tokens : timed_push(token)
    \/ timed_periodic_flush

SpecTimedQueue == Init /\ [][NextTimedQueue]_vars

\* ------------------------------------------------------------------------
\* stream_research (app/main.py): the producer task and the event generator
\* ------------------------------------------------------------------------
\* json.dumps(...) + "\n": one line, named by what it carries
LogEvent(node_name) == <<node_name, "\n">>

DoneEvent == <<"done", "\n">>

ErrorEvent == <<"error", "\n">>

\* The logs of one update: every stage returns one entry, extractor_agent one or two
LogCounts(node_name) == IF node_name = "extractor_agent" THEN {1, 2} ELSE {1}

RECURSIVE PushLogs(_, _, _)
\* for log_entry in logs: await event_queue.push(event_str + "\n")
PushLogs(q, node_name, n) ==
    IF n = 0 THEN q ELSE PushLogs(Push(q, LogEvent(node_name)), node_name, n - 1)

\* Mutant: the producer without its finally clause
ProducerEnds_no_finally(q, event) == Push(q, event)

\* The producer pushes its terminal event, and its finally clause closes the queue
ProducerEnds(q, event) == Close(Push(q, event), "c1")

\* The handler: 404 for a thread without values; otherwise the event generator
\* starts the queue's timer, creates the producer task and begins to consume
stream_research_handler ==
    /\ producer.pc = "none"
    /\ \E found \in BOOLEAN :
          IF ~found
          THEN /\ producer' = [producer EXCEPT !.pc = "not_found"]
               /\ sq' = sq
          ELSE /\ producer' = [producer EXCEPT !.pc = "streaming"]
               /\ sq' = [sq EXCEPT !._flush_task = "sleeping"]
    /\ UNCHANGED <<workflow_vars, dedup, util_vars>>

\* astream yields the update of a stage: one event per log entry
producer_chunk ==
    /\ producer.pc = "streaming"
    /\ producer.chunks < MaxChunks
    /\ \E node_name \in Nodes : \E n \in LogCounts(node_name) :
          sq' = PushLogs(sq, node_name, n)
    /\ producer' = [producer EXCEPT !.chunks = @ + 1]
    /\ UNCHANGED <<workflow_vars, dedup, util_vars>>

\* astream is exhausted: the run of the graph has finished
producer_done ==
    /\ producer.pc = "streaming"
    /\ sq' = ProducerEnds(sq, DoneEvent)
    /\ producer' = [producer EXCEPT !.pc = "closing", !.outcome = "done"]
    /\ UNCHANGED <<workflow_vars, dedup, util_vars>>

\* astream raises what a stage raised
producer_error ==
    /\ producer.pc = "streaming"
    /\ sq' = ProducerEnds(sq, ErrorEvent)
    /\ producer' = [producer EXCEPT !.pc = "closing", !.outcome = "error"]
    /\ UNCHANGED <<workflow_vars, dedup, util_vars>>

\* The event generator iterates consume() once it has started the queue
event_generator_consume ==
    /\ producer.pc \in {"streaming", "closing"}
    /\ consume

NextStream ==
    \/ stream_research_handler
    \/ producer_chunk
    \/ producer_done
    \/ producer_error
    \/ window_elapses
    \/ _periodic_flush
    \/ \E c \in Closers : close_resumes(c)
    \/ event_generator_consume

SpecStream == Init /\ [][NextStream]_vars

\* The event loop runs the producer task, whose run of the graph ends or raises,
\* resumes its close, and the response iterates the event generator
LiveSpecStream ==
    /\ SpecStream
    /\ WF_vars(producer_chunk \/ producer_done \/ producer_error)
    /\ WF_vars(\E c \in Closers : close_resumes(c))
    /\ WF_vars(event_generator_consume)

\* ------------------------------------------------------------------------
\* source_tracker (backend/utils/source_tracker.py)
\* ------------------------------------------------------------------------
\* The clock is read in steps of a minute, so that a failure is seen at the ages
\* 0, 60, 120, ... seconds
TimeStep == 60

\* Mutant: a failure exactly SOURCE_SKIP_WINDOW_SECONDS old still counts
Recent_inclusive(times, now) ==
    FilterSeq(times, {i \in DOMAIN times : now - times[i] <= SOURCE_SKIP_WINDOW_SECONDS})

\* [t for t in times if now - t < SOURCE_SKIP_WINDOW_SECONDS]
Recent(times, now) ==
    FilterSeq(times, {i \in DOMAIN times : now - times[i] < SOURCE_SKIP_WINDOW_SECONDS})

\* Mutant: should_skip answers true only above the threshold
ShouldSkip_above_threshold(tr, source) ==
    LET recent == Recent(tr._failures[source], tr.now)
    IN [tr EXCEPT !._failures[source] = recent,
                  !.asked = Some(source),
                  !.answer = Len(recent) > SOURCE_SKIP_THRESHOLD]

\* should_skip(source): the tracker afterwards; answer is what it returns
ShouldSkip(tr, source) ==
    LET recent == Recent(tr._failures[source], tr.now)
    IN [tr EXCEPT !._failures[source] = recent,
                  !.asked = Some(source),
                  !.answer = Len(recent) >= SOURCE_SKIP_THRESHOLD]

RecordFailure(tr, source) ==
    [tr EXCEPT !._failures[source] = Append(@, tr.now),
               !.since[source] = Append(@, tr.now),
               !.tripped = IF Len(Recent(Append(tr._failures[source], tr.now), tr.now))
                               >= SOURCE_SKIP_THRESHOLD
                            THEN @ \cup {source} ELSE @,
               !.asked = None]

RecordSuccess(tr, source) ==
    [tr EXCEPT !._failures[source] = <<>>, !.since[source] = <<>>,
               !.tripped = @ \ {source}, !.asked = None]

RECURSIVE SumLen(_, _)
SumLen(f, S) ==
    IF S = {} THEN 0
    ELSE LET s == CHOOSE x \in S : TRUE IN Len(f[s]) + SumLen(f, S \ {s})

\* time.time() moves on
time_passes ==
    /\ tracker.now + TimeStep <= MaxTime
    /\ tracker' = [tracker EXCEPT !.now = @ + TimeStep, !.asked = None]
    /\ UNCHANGED not_tracker

should_skip(source) ==
    /\ tracker' = ShouldSkip(tracker, source)
    /\ UNCHANGED not_tracker

record_failure(source) ==
    /\ SumLen(tracker.since, TrackedSources) < MaxFailures
    /\ tracker' = RecordFailure(tracker, source)
    /\ UNCHANGED not_tracker

record_success(source) ==
    /\ tracker' = RecordSuccess(tracker, source)
    /\ UNCHANGED not_tracker

reset_all ==
    /\ tracker' = [tracker EXCEPT !._failures = [s \in TrackedSources |-> <<>>],
                                  !.since = [s \in TrackedSources |-> <<>>],
                                  !.tripped = {},
                                  !.asked = None]
    /\ UNCHANGED not_tracker

\* The tracker under callers that call its functions in any order
NextTracker ==
    \/ time_passes
    \/ \E source \in TrackedSources : should_skip(source)
    \/ \E source \in TrackedSources : record_failure(source)
    \/ \E source \in TrackedSources : record_success(source)
    \/ reset_all

SpecTracker == Init /\ [][NextTracker]_vars

\* ------------------------------------------------------------------------
\* search_semantic_scholar and _fetch_semantic_scholar (backend/utils/scholar_api.py)
\* ------------------------------------------------------------------------
\* What an attempt may meet: an HTTP status, or an aiohttp.ClientError (a
\* timeout, a connection reset) in place of a response
Responses == {"200", "429", "500", "503", "404", "ClientError"}

\* The exception an attempt ends with, "none" for a 200
Raised(resp) ==
    IF resp = "200" THEN "none"
    ELSE IF resp = "429" THEN "RateLimitError"
    ELSE IF resp = "ClientError" THEN "ClientError"
    ELSE "ScholarAPIError"

\* retry=retry_if_exception_type((RateLimitError, aiohttp.ClientError))
Retried(exception) == exception \in {"RateLimitError", "ClientError"}

NewRequest == [attempts |-> 0, response |-> "none", status |-> "pending", exception |-> "none"]

\* One attempt of a pending call under the retry decorator: a result is
\* returned, an exception of a retried type leads to another attempt until
\* stop_after_attempt, where RetryError is raised, any other exception is raised
AfterAttempt(request, resp) ==
    LET made == [request EXCEPT !.attempts = @ + 1, !.response = resp]
    IN IF Raised(resp) = "none" THEN [made EXCEPT !.status = "returned"]
       ELSE IF ~Retried(Raised(resp))
       THEN [made EXCEPT !.status = "raised", !.exception = Raised(resp)]
       ELSE IF made.attempts >= STOP_AFTER_ATTEMPT
       THEN [made EXCEPT !.status = "raised", !.exception = "RetryError"]
       ELSE made

\* search_semantic_scholar gathers one call of _fetch_semantic_scholar per query
search_semantic_scholar ==
    /\ fetch.pc = "none"
    /\ \E n \in 1..MaxQueries :
          fetch' = [NoSearch EXCEPT !.pc = "gathering",
                                    !.requests = [i \in 1..n |-> NewRequest]]
    /\ UNCHANGED not_fetch

\* An attempt of the call for one query gets its response
_fetch_semantic_scholar ==
    /\ fetch.pc = "gathering"
    /\ \E i \in DOMAIN fetch.requests, resp \in Responses :
          /\ fetch.requests[i].status = "pending"
          /\ fetch' = [fetch EXCEPT !.requests[i] = AfterAttempt(@, resp)]
    /\ UNCHANGED not_fetch

\* gather(return_exceptions=True) has every result: the exceptions are logged
\* and skipped, the papers of the other results are returned. papers holds the
\* queries that gave a result.
search_semantic_scholar_returns ==
    /\ fetch.pc = "gathering"
    /\ \A i \in DOMAIN fetch.requests : fetch.requests[i].status # "pending"
    /\ fetch' = [fetch EXCEPT
                   !.pc = "returned",
                   !.papers = FilterSeq([i \in DOMAIN fetch.requests |-> i],
                                        {i \in DOMAIN fetch.requests :
                                           fetch.requests[i].status = "returned"})]
    /\ UNCHANGED not_fetch

NextFetch ==
    \/ search_semantic_scholar
    \/ _fetch_semantic_scholar
    \/ search_semantic_scholar_returns

SpecFetch == Init /\ [][NextFetch]_vars

\* ------------------------------------------------------------------------
\* search_papers_multi_source (backend/utils/scholar_api.py)
\* ------------------------------------------------------------------------
\* The order in which the function looks at the sources
SourceOrder == <<"semantic_scholar", "arxiv", "pubmed">>

\* sources: None stands for [PaperSource.SEMANTIC_SCHOLAR]
RequestedSources(sources) == IF sources = None THEN {"semantic_scholar"} ELSE sources[1]

\* What the search of a source finds: the same title in three spellings
Found(source) ==
    IF source = "semantic_scholar"
    THEN <<[paper_id |-> "p1", title |-> <<"A", " ", "b">>, source |-> source]>>
    ELSE IF source = "arxiv"
    THEN <<[paper_id |-> "p2", title |-> <<" ", "a", "!", " ", " ", "b">>, source |-> source]>>
    ELSE <<[paper_id |-> "p3", title |-> <<"A", " ", "b">>, source |-> source],
           [paper_id |-> "p1", title |-> <<"a", "b">>, source |-> source]>>

\* How the search of a source may end: it raises (a payload it cannot parse),
\* every request it made for a keyword failed, or it found papers
SearchOutcomes == {"raises", "all_requests_failed", "found"}

\* A search raises, or returns a list of papers; search_semantic_scholar,
\* search_arxiv and search_pubmed log the requests that failed and return the
\* papers of the others, the empty list when every request failed
SearchResult(source, outcome) ==
    IF outcome = "raises" THEN None
    ELSE IF outcome = "all_requests_failed" THEN Some(<<>>)
    ELSE Some(Found(source))

\* The results of the search of a source over the outcomes considered
SearchResults(source, outcomes) == {SearchResult(source, outcome) : outcome \in outcomes}

\* The sources a caller asks for: the default, none, one, two and all
SourceRequests ==
    {None, Some({}), Some({"arxiv"}), Some({"arxiv", "pubmed"}), Some(TrackedSources)}

RECURSIVE SkipTests(_, _, _)
\* The three tests of should_skip, for the requested sources from the k-th of
\* SourceOrder onwards: the tracker afterwards, the keys queried and the sources skipped
SkipTests(tr, sources, k) ==
    IF k > Len(SourceOrder) THEN [tr |-> tr, source_keys |-> <<>>, skipped |-> {}]
    ELSE LET source == SourceOrder[k]
         IN IF source \notin sources THEN SkipTests(tr, sources, k + 1)
            ELSE LET tested == ShouldSkip(tr, source)
                     rest == SkipTests(tested, sources, k + 1)
                 IN IF tested.answer
                    THEN [rest EXCEPT !.skipped = @ \cup {source}]
                    ELSE [rest EXCEPT !.source_keys = <<source>> \o @]

\* Mutant: the searches are started without asking should_skip
SearchTasks_no_skip(tr, sources) ==
    [tr |-> SkipTests(tr, sources, 1).tr,
     source_keys |-> FilterSeq(SourceOrder, {k \in DOMAIN SourceOrder : SourceOrder[k] \in sources}),
     skipped |-> SkipTests(tr, sources, 1).skipped]

\* The part of the function before asyncio.gather
SearchTasks(tr, sources) == SkipTests(tr, sources, 1)

RECURSIVE ProcessResults(_, _, _, _)
\* for i, r in enumerate(results): the tracker afterwards, all_papers, and the
\* calls of record_failure and record_success made
ProcessResults(tr, source_keys, results, i) ==
    IF i > Len(results) THEN [tr |-> tr, all_papers |-> <<>>, recorded |-> {}]
    ELSE IF results[i] = None
         THEN LET rest == ProcessResults(RecordFailure(tr, source_keys[i]),
                                         source_keys, results, i + 1)
              IN [rest EXCEPT !.recorded = @ \cup {<<source_keys[i], "failure">>}]
         ELSE LET rest == ProcessResults(RecordSuccess(tr, source_keys[i]),
                                         source_keys, results, i + 1)
              IN [rest EXCEPT !.recorded = @ \cup {<<source_keys[i], "success">>},
                              !.all_papers = results[i][1] \o @]

\* search_papers_multi_source is called; without a task it returns [] at once,
\* otherwise it waits for the searches
search_papers_multi_source(sources) ==
    /\ tracker.retrieval.pc # "gathering"
    /\ tracker.retrieval.count < MaxRetrievals
    /\ LET tasks == SearchTasks(tracker, RequestedSources(sources))
           call_ == [NoRetrieval EXCEPT !.sources = RequestedSources(sources),
                                        !.source_keys = tasks.source_keys,
                                        !.skipped = tasks.skipped,
                                        !.began = tracker.now,
                                        !.count = tracker.retrieval.count + 1]
       IN tracker' = [tasks.tr EXCEPT
                         !.asked = None,
                         !.retrieval = IF tasks.source_keys = <<>>
                                       THEN [call_ EXCEPT !.pc = "returned"]
                                       ELSE [call_ EXCEPT !.pc = "gathering"]]
    /\ UNCHANGED not_tracker

\* The searches have ended, each in one of outcomes: the results are walked,
\* a failure or a success is recorded for each, and the papers are returned
Gathered(outcomes) ==
    /\ tracker.retrieval.pc = "gathering"
    /\ \E results \in [DOMAIN tracker.retrieval.source_keys ->
                         UNION {SearchResults(s, outcomes) : s \in TrackedSources}] :
          /\ \A i \in DOMAIN results :
                results[i] \in SearchResults(tracker.retrieval.source_keys[i], outcomes)
          /\ LET done == ProcessResults(tracker, tracker.retrieval.source_keys, results, 1)
             IN tracker' = [done.tr EXCEPT
                               !.outages = [s \in TrackedSources |->
                                              IF \E i \in DOMAIN results :
                                                    /\ tracker.retrieval.source_keys[i] = s
                                                    /\ results[i] = Some(<<>>)
                                              THEN Append(@[s], tracker.now) ELSE @[s]],
                               !.retrieval = [tracker.retrieval EXCEPT
                                                !.pc = "returned",
                                                !.results = results,
                                                !.recorded = done.recorded,
                                                !.returned = deduplicate_papers(done.all_papers)]]
    /\ UNCHANGED not_tracker

\* The searches have ended, each with papers or an exception
search_papers_multi_source_gathered == Gathered({"raises", "found"})

NextRetrieval ==
    \/ time_passes
    \/ \E sources \in SourceRequests : search_papers_multi_source(sources)
    \/ search_papers_multi_source_gathered

SpecRetrieval == Init /\ [][NextRetrieval]_vars

\* Retrievals from one source whose requests may all fail
OutageRequests == {None, Some({"arxiv"})}

\* The searches have ended, each with papers, with every request failed, or
\* with an exception
search_papers_multi_source_ends == Gathered(SearchOutcomes)

NextOutage ==
    \/ time_passes
    \/ \E sources \in OutageRequests : search_papers_multi_source(sources)
    \/ search_papers_multi_source_ends

SpecOutage == Init /\ [][NextOutage]_vars

\* ------------------------------------------------------------------------
\* extractor_agent (backend/nodes.py): the concurrent extractions of one execution
\* ------------------------------------------------------------------------
\* The LLM calls that have been started and have not returned or raised
InFlight(e) ==
    Cardinality({i \in DOMAIN e.core : e.core[i] = "pending"})
    + Cardinality({i \in DOMAIN e.structured : e.structured[i] = "pending"})

\* Mutant: the results are collected in the order the tasks ended
Extracted_completion_order(e) ==
    LET done == FilterSeq(e.finished, {k \in DOMAIN e.finished : e.task[e.finished[k]] = "done"})
    IN [k \in DOMAIN done |-> [e.approved[done[k]] EXCEPT !.core_contribution = TRUE]]

\* for r, paper in zip(results, approved): the results that are not exceptions
Extracted(e) ==
    LET kept == FilterSeq(e.approved, {i \in DOMAIN e.approved : e.task[i] = "done"})
    IN [k \in DOMAIN kept |-> [kept[k] EXCEPT !.core_contribution = TRUE]]

\* The stage is entered with the candidates as approve_papers left them
extractor_agent_starts ==
    /\ extraction.pc = "none"
    /\ \E n \in 0..MaxExtractPapers, paper_ids \in SUBSET (1..MaxExtractPapers) :
          LET candidates == MarkApproved([i \in 1..n |-> Paper(i)], paper_ids)
              approved == ApprovedList(candidates)
          IN extraction' =
               IF approved = <<>>
               THEN [NoExtraction EXCEPT !.pc = "returned", !.candidates = candidates]
               ELSE [NoExtraction EXCEPT
                        !.pc = "gathering",
                        !.candidates = candidates,
                        !.approved = approved,
                        !._value = LLM_CONCURRENCY,
                        !.task = [i \in DOMAIN approved |-> "waiting"],
                        !.core = [i \in DOMAIN approved |-> "none"],
                        !.structured = [i \in DOMAIN approved |-> "none"]]
    /\ UNCHANGED not_extraction

\* extract_with_limit acquires the semaphore, the waiters in the order of the
\* list, and _extract_contribution starts its two completions
extract_with_limit ==
    /\ extraction.pc = "gathering"
    /\ extraction._value > 0
    /\ \E i \in DOMAIN extraction.task :
          /\ extraction.task[i] = "waiting"
          /\ \A j \in 1..(i - 1) : extraction.task[j] # "waiting"
          /\ extraction' = [extraction EXCEPT !._value = @ - 1,
                                              !.task[i] = "calling",
                                              !.core[i] = "pending",
                                              !.structured[i] = "pending"]
    /\ UNCHANGED not_extraction

\* The task of approved[i] after one of its completions has ended: gather raises
\* the first exception, and with both results an empty core_contribution raises;
\* leaving the with block releases the semaphore
TaskAfterCall(e, i) ==
    IF e.task[i] # "calling" THEN e
    ELSE IF e.core[i] = "raised" \/ e.structured[i] = "raised"
              \/ (e.core[i] = "empty" /\ e.structured[i] = "ok")
         THEN [e EXCEPT !.task[i] = "failed", !._value = @ + 1,
                        !.finished = Append(@, i)]
         ELSE IF e.core[i] = "ok" /\ e.structured[i] = "ok"
         THEN [e EXCEPT !.task[i] = "done", !._value = @ + 1,
                        !.finished = Append(@, i)]
         ELSE e

\* An LLM call ends: the core-contribution completion of approved[i] returns a
\* contribution, returns an empty one, or raises
core_completion_ends ==
    /\ \E i \in DOMAIN extraction.core, outcome \in {"ok", "empty", "raised"} :
          /\ extraction.core[i] = "pending"
          /\ extraction' = TaskAfterCall([extraction EXCEPT !.core[i] = outcome], i)
    /\ UNCHANGED not_extraction

\* The structured-extraction completion of approved[i] returns or raises
structured_completion_ends ==
    /\ \E i \in DOMAIN extraction.structured, outcome \in {"ok", "raised"} :
          /\ extraction.structured[i] = "pending"
          /\ extraction' = TaskAfterCall([extraction EXCEPT !.structured[i] = outcome], i)
    /\ UNCHANGED not_extraction

\* gather has every result: the stage collects them, has the extracted papers
\* enriched with full-text URLs (the same papers in the same order, or none of
\* it when the enrichment raises) and returns its update
extractor_agent_returns ==
    /\ extraction.pc = "gathering"
    /\ \A i \in DOMAIN extraction.task : extraction.task[i] \in {"done", "failed"}
    /\ \E pdf_count \in 0..Len(Extracted(extraction)) :
          extraction' =
            [extraction EXCEPT
               !.pc = "returned",
               !.approved_papers = Extracted(extraction),
               !.failed_count = Cardinality({i \in DOMAIN extraction.task :
                                               extraction.task[i] = "failed"}),
               !.pdf_count = pdf_count]
    /\ UNCHANGED not_extraction

NextExtract ==
    \/ extractor_agent_starts
    \/ extract_with_limit
    \/ core_completion_ends
    \/ structured_completion_ends
    \/ extractor_agent_returns

SpecExtract == Init /\ [][NextExtract]_vars

\* ------------------------------------------------------------------------
\* critic_agent (backend/nodes.py) on its own: the two layers of one execution
\* ------------------------------------------------------------------------
\* What a section may hold: any set of indices from 0 to one past the last paper
CriticSections(num_papers) == SUBSET (0..(num_papers + 1))

\* The state the critic is entered with: the writer's draft for num_papers
\* extracted papers, after retry_count failed checks of this run
CriticState(draft, num_papers, retry_count) ==
    [final_draft |-> draft,
     approved_papers |-> [i \in 1..num_papers |->
                            [paper_id |-> i, is_approved |-> TRUE,
                             core_contribution |-> TRUE]],
     retry_count |-> retry_count,
     qa_errors |-> IF retry_count > 0 THEN <<Error("missing", 0, 1)>> ELSE <<>>,
     logs |-> <<"writer_agent">>]

\* What verify_draft_citations may give: it raises, or returns a summary
CriticSummaries ==
    {NotVerified}
    \cup {[raised |-> FALSE, total |-> n, entails |-> e] :
            n \in 0..MaxEntailments, e \in 0..MaxEntailments}

\* Mutant: the critic goes on to Layer 2 with structural errors in hand
ReturnsAfterLayer1_despite_errors(state, errors) ==
    \/ state.final_draft = None
    \/ ~(CLAIM_VERIFICATION_ENABLED /\ state.approved_papers # <<>>)

\* The returns of critic_agent before Layer 2: no draft, structural errors, or
\* claim verification switched off or without a paper to verify against
ReturnsAfterLayer1(state, errors) ==
    \/ state.final_draft = None
    \/ errors # <<>>
    \/ ~(CLAIM_VERIFICATION_ENABLED /\ state.approved_papers # <<>>)

\* The critic after Layer 1 on the state it is given
AfterLayer1(state) ==
    LET errors == IF state.final_draft = None THEN <<>>
                  ELSE StructuralErrors(state.final_draft[1], Len(state.approved_papers))
    IN IF ReturnsAfterLayer1(state, errors)
       THEN [NoCritic EXCEPT !.pc = "returned", !.state = state, !.errors = errors,
                             !.patch = CriticPatch(state, NotVerified)]
       ELSE [NoCritic EXCEPT !.pc = "verifying", !.state = state, !.errors = errors,
                             !.calls = 1]

\* The critic is called and runs Layer 1. The writer is entered with retry_count
\* below MAX_RETRY_COUNT, and returns no draft exactly when no paper has a
\* contribution; its draft has at most MaxDraftSections sections.
critic_agent_layer1 ==
    /\ critic.pc = "none"
    /\ \E r \in 0..(MAX_RETRY_COUNT - 1) :
          \/ critic' = AfterLayer1(CriticState(None, 0, r))
          \/ \E n \in 1..MaxCriticPapers, k \in 0..MaxDraftSections :
                \E d \in [1..k -> CriticSections(n)] :
                   critic' = AfterLayer1(CriticState(Some(d), n, r))
    /\ UNCHANGED not_critic

\* verify_draft_citations returns its summary or raises, and the critic returns
critic_agent_layer2 ==
    /\ critic.pc = "verifying"
    /\ \E summary \in CriticSummaries :
          /\ summary.entails <= summary.total
          /\ critic' = [critic EXCEPT !.pc = "returned", !.summary = summary,
                                      !.patch = CriticPatch(critic.state, summary)]
    /\ UNCHANGED not_critic

NextCritic ==
    \/ critic_agent_layer1
    \/ critic_agent_layer2

SpecCritic == Init /\ [][NextCritic]_vars

\* ------------------------------------------------------------------------
\* verify_draft_citations (backend/utils/claim_verifier.py): the LLM calls of the
\* critic's semantic layer
\* ------------------------------------------------------------------------
\* The completion calls that have been started and have not returned or raised
CompletionsInFlight(v) ==
    Cardinality({i \in DOMAIN v.extract : v.extract[i] = "pending"})
    + Cardinality({k \in DOMAIN v.verify : v.verify[k] = "pending"})

\* extract_all_claims gathers one _safe_extract_claims per section; a section
\* with no {cite:N} marker returns at once, every other starts its completion
extract_all_claims ==
    /\ semantic.pc = "none"
    /\ \E n \in 1..MaxSections, cited \in SUBSET (1..MaxSections) :
          /\ cited \subseteq 1..n
          /\ semantic' = [NoSemantic EXCEPT
                            !.pc = "extracting",
                            !.extract = [i \in 1..n |-> IF i \in cited THEN "pending"
                                                        ELSE "done"],
                            !.claims = [i \in 1..n |-> FALSE]]
    /\ UNCHANGED not_semantic

\* The completion of a section returns claims with a citation, returns none, or
\* raises (_safe_extract_claims then returns no claim)
claim_extraction_ends ==
    /\ semantic.pc = "extracting"
    /\ \E i \in DOMAIN semantic.extract, outcome \in {"claims", "no_claims", "raised"} :
          /\ semantic.extract[i] = "pending"
          /\ semantic' = [semantic EXCEPT !.extract[i] = "done",
                                          !.claims[i] = (outcome = "claims")]
    /\ UNCHANGED not_semantic

\* gather over bounded_verify: the tasks enter the semaphore in the order of
\* the list while it has a permit, and start their completion
VerifyTasks(n) ==
    [k \in 1..n |-> IF k <= CLAIM_VERIFICATION_CONCURRENCY THEN "pending" ELSE "waiting"]

\* extract_all_claims has every result. With no claim verify_draft_citations
\* returns the empty summary; otherwise verify_claims builds one task per pair
\* of a claim and a cited index that names a paper, and returns at once when
\* there is none
verify_claims ==
    /\ semantic.pc = "extracting"
    /\ \A i \in DOMAIN semantic.extract : semantic.extract[i] = "done"
    /\ IF \A i \in DOMAIN semantic.claims : ~semantic.claims[i]
       THEN semantic' = [semantic EXCEPT !.pc = "returned"]
       ELSE \E n \in 0..MaxClaimPairs :
              semantic' =
                IF n = 0 THEN [semantic EXCEPT !.pc = "returned"]
                ELSE [semantic EXCEPT
                        !.pc = "verifying",
                        !.verify = VerifyTasks(n),
                        !._value = CLAIM_VERIFICATION_CONCURRENCY
                                   - Min(n, CLAIM_VERIFICATION_CONCURRENCY)]
    /\ UNCHANGED not_semantic

\* The completion of a pair returns a label or raises (bounded_verify then
\* returns None); leaving the with block releases the semaphore, which wakes
\* the first waiter
claim_verification_ends ==
    /\ semantic.pc = "verifying"
    /\ \E k \in DOMAIN semantic.verify, raised \in BOOLEAN :
          /\ semantic.verify[k] = "pending"
          /\ LET waiting == {j \in DOMAIN semantic.verify : semantic.verify[j] = "waiting"}
                 ended == [semantic EXCEPT !.verify[k] = "done",
                                           !.results = IF raised THEN @ ELSE @ + 1]
             IN semantic' = IF waiting = {} THEN [ended EXCEPT !._value = @ + 1]
                            ELSE [ended EXCEPT !.verify[MinOf(waiting)] = "pending"]
    /\ UNCHANGED not_semantic

\* gather has every result: verify_claims returns those that are not None
verify_claims_returns ==
    /\ semantic.pc = "verifying"
    /\ \A k \in DOMAIN semantic.verify : semantic.verify[k] = "done"
    /\ semantic' = [semantic EXCEPT !.pc = "returned"]
    /\ UNCHANGED not_semantic

NextSemantic ==
    \/ extract_all_claims
    \/ claim_extraction_ends
    \/ verify_claims
    \/ claim_verification_ends
    \/ verify_claims_returns

SpecSemantic == Init /\ [][NextSemantic]_vars

\* ------------------------------------------------------------------------
\* _normalize_doi (app/utils/fulltext_api.py)
\* ------------------------------------------------------------------------
\* Strings are sequences of characters. The letters that occur in upper case:
UpperCase == <<"H", "T", "P", "S", "D", "X", "O", "I", "R", "G">>

LowerCase == <<"h", "t", "p", "s", "d", "x", "o", "i", "r", "g">>

\* str.lower() on one character
DoiLowerChar(c) ==
    IF \E k \in DOMAIN UpperCase : UpperCase[k] = c
    THEN LowerCase[CHOOSE k \in DOMAIN UpperCase : UpperCase[k] = c]
    ELSE c

DoiLower(str) == [i \in DOMAIN str |-> DoiLowerChar(str[i])]

\* The strings the pattern ^https?://(dx\.)?doi\.org/ matches, in lower case
DoiPrefixes ==
    {<<"h", "t", "t", "p">> \o s \o <<":", "/", "/">> \o dx
        \o <<"d", "o", "i", ".", "o", "r", "g", "/">> :
          s \in {<<>>, <<"s">>}, dx \in {<<>>, <<"d", "x", ".">>}}

StartsWith(str, prefix) ==
    Len(str) >= Len(prefix) /\ SubSeq(str, 1, Len(prefix)) = prefix

\* re.sub(pattern, "", doi, flags=re.I): the match at the start, if any, is removed
RemoveDoiPrefix(str) ==
    IF \E prefix \in DoiPrefixes : StartsWith(DoiLower(str), prefix)
    THEN LET prefix == CHOOSE q \in DoiPrefixes : StartsWith(DoiLower(str), q)
         IN SubSeq(str, Len(prefix) + 1, Len(str))
    ELSE str

NormalizeDoi(str) == DoiLower(RemoveDoiPrefix(RStrip(LStrip(str))))

\* The pieces the strings given to _normalize_doi are made of: a blank, the
\* resolver prefix in two spellings, a DOI, and the label "doi:"
DoiParts ==
    {<<" ">>,
     <<"h", "t", "t", "p", "s", ":", "/", "/", "d", "o", "i", ".", "o", "r", "g", "/">>,
     <<"H", "T", "T", "P", ":", "/", "/", "D", "X", ".", "D", "O", "I", ".", "O", "R", "G", "/">>,
     <<"1", "0", ".", "1", "/", "X">>,
     <<"d", "o", "i", ":">>}

DoiStrings == UNION {[1..n -> DoiParts] : n \in 0..MaxDoiParts}

\* _normalize_doi is called on a string, and again on what it returned
_normalize_doi ==
    /\ \E parts \in DoiStrings :
          doi' = [pc |-> "returned", doi |-> Join(parts),
                  once |-> NormalizeDoi(Join(parts)),
                  twice |-> NormalizeDoi(NormalizeDoi(Join(parts)))]
    /\ UNCHANGED not_doi

NextDoi == _normalize_doi

SpecDoi == Init /\ [][NextDoi]_vars

\* ------------------------------------------------------------------------
\* Properties
\* ------------------------------------------------------------------------
Started == {t \in ThreadIds : Exists(t)}

\* The run of the graph a handler is waiting for has reached END
RunTerminated(op) == call.op = op /\ next[call.thread] = {}

\* C1: in every reachable state of a session, retry_count is at most 3.
C1_RetryCountBounded == \A t \in Started : values[t].retry_count <= 3

C1_Witness ==
    \E t \in Started : values[t].retry_count = 3 /\ values[t].qa_errors # <<>>

\* C2 as stated: over the whole life of a session (one start, one approve, any
\* number of continue calls) the Writer executes at most 4 times.
C2_WriterAtMostFour == \A t \in ThreadIds : executed[t]["writer_agent"] <= 4

\* C2 amended: within one run of the graph the Writer executes at most 3 times,
\* and over the life of a session with k accepted continue calls at most 3 * (k + 1) times.
C2_WriterPerRun ==
    /\ call.ran["writer_agent"] <= 3
    /\ \A t \in ThreadIds : executed[t]["writer_agent"] <= 3 * (continues[t] + 1)

C2_Witness ==
    /\ call.op = "continue" /\ call.ran["writer_agent"] = 3
    /\ executed[call.thread]["writer_agent"] = 3 * (continues[call.thread] + 1)

\* C3: whenever a run started by approve or continue terminates with a non-null
\* final_draft, either qa_errors is empty, or retry_count is 3 and final_draft is
\* the output of the last Writer execution.
C3_DraftAtTermination ==
    \A op \in {"approve", "continue"} :
        (RunTerminated(op) /\ values[call.thread].final_draft # None) =>
            \/ values[call.thread].qa_errors = <<>>
            \/ /\ values[call.thread].retry_count = 3
               /\ values[call.thread].final_draft = lastDraft[call.thread]

C3_Witness ==
    /\ RunTerminated("approve")
    /\ values[call.thread].final_draft # None
    /\ values[call.thread].qa_errors # <<>>
    /\ values[call.thread].retry_count = 3

\* C4: in a run resumed by approve in which every Writer output fails QA, the run
\* terminates, and at termination final_draft is present, qa_errors is non-empty,
\* retry_count is 3 and the Writer has executed exactly 3 times in that run.
C4_Exhausted ==
    (RunTerminated("approve") /\ call.passed = 0) =>
        /\ values[call.thread].final_draft # None
        /\ values[call.thread].qa_errors # <<>>
        /\ values[call.thread].retry_count = 3
        /\ call.ran["writer_agent"] = 3
        /\ call.failed = 3

C4_QAExhaustion == [](C4_Exhausted) /\ ((call.op = "approve") ~> (call.op = "idle"))

C4_Witness == RunTerminated("approve") /\ call.passed = 0 /\ call.failed = 3

\* C5: start executes Planner and then Retriever exactly once each and then pauses:
\* when start returns, the thread's next stage is the Extractor, and Extractor,
\* Writer and Critic have not executed for that thread.
C5_StartPausesBeforeExtractor ==
    (response.op = "start" /\ response.status = 200) =>
        /\ next[response.thread] = {"extractor_agent"}
        /\ values[response.thread].logs = <<"planner_agent", "retriever_agent">>
        /\ executed[response.thread] =
               [n \in Nodes |-> IF n \in {"planner_agent", "retriever_agent"} THEN 1 ELSE 0]

C5_Witness ==
    /\ response.op = "start" /\ response.status = 200
    /\ values[response.thread].candidate_papers # <<>>

\* C6: for a thread paused at the interrupt before the Extractor, an approve call
\* naming at least one candidate paper_id is accepted, not rejected as "not
\* waiting for approval".
C6_ApproveAcceptedAtInterrupt ==
    ~ /\ response.op = "approve" /\ response.detail = "not_waiting"
      /\ response.matched > 0
      /\ next[response.thread] = {"extractor_agent"}

\* A request that the handler answered itself, without a run of the graph
Rejected(op) ==
    call.op = "idle" /\ call'.op = "idle" /\ response'.op = op /\ response' # response

\* A request that passed the guards of its handler
Accepted(op) == call.op = "idle" /\ call'.op = op

\* C7: approve is rejected with 404 when the thread_id has no stored state, with
\* 400 when the thread's next stage is not the Extractor interrupt, and with 400
\* when none of the paper_ids matches a candidate; in every rejected case no stage
\* runs and the stored session state is unchanged.
C7_ApproveStep ==
    /\ Rejected("approve") =>
         LET t == response'.thread
         IN /\ response'.status \in {400, 404}
            /\ ~Exists(t) => response'.status = 404
            /\ (Exists(t) /\ "extractor_agent" \notin next[t]) => response'.status = 400
            /\ (Exists(t) /\ response'.matched = 0) => response'.status = 400
            /\ UNCHANGED <<values, next, executed>>
    /\ Accepted("approve") =>
         LET t == call'.thread
         IN Exists(t) /\ "extractor_agent" \in next[t] /\ call'.approved_count > 0

C7_ApproveRejections == [][C7_ApproveStep]_vars

\* a second approve after a completed one
C7_Witness ==
    /\ response.op = "approve" /\ response.status = 400 /\ response.detail = "not_waiting"
    /\ executed[response.thread]["critic_agent"] > 0
    /\ values[response.thread].final_draft # None

\* C8: continue is rejected with 404 for an unknown thread_id and with 400 when
\* the thread has no final_draft; in both cases no message is appended, no field
\* is changed and no stage runs.
C8_ContinueStep ==
    /\ Rejected("continue") =>
         LET t == response'.thread
         IN /\ response'.status \in {400, 404}
            /\ ~Exists(t) => response'.status = 404
            /\ (Exists(t) /\ values[t].final_draft = None) => response'.status = 400
            /\ UNCHANGED <<values, next, executed>>
    /\ Accepted("continue") =>
         LET t == call'.thread
         IN Exists(t) /\ values[t].final_draft # None

C8_ContinueRejections == [][C8_ContinueStep]_vars

\* continue on a thread still paused at the interrupt
C8_Witness ==
    /\ response.op = "continue" /\ response.status = 400
    /\ next[response.thread] = {"extractor_agent"}

\* C9: a run started by continue enters the graph at the Writer: Planner,
\* Retriever and Extractor do not execute during it, and search_keywords,
\* candidate_papers and approved_papers are the same after the run as before it.
C9_ContinueEntersAtWriter ==
    call.op = "continue" =>
        LET t == call.thread
        IN /\ call.resuming => next[t] = {"writer_agent"}
           /\ \A n \in {"planner_agent", "retriever_agent", "extractor_agent"} : call.ran[n] = 0
           /\ call.ran["critic_agent"] <= call.ran["writer_agent"]
           /\ values[t].search_keywords = call.before.search_keywords
           /\ values[t].candidate_papers = call.before.candidate_papers
           /\ values[t].approved_papers = call.before.approved_papers

C9_Witness ==
    /\ RunTerminated("continue") /\ call.ran["writer_agent"] > 0
    /\ values[call.thread].approved_papers # <<>>
    /\ values[call.thread].search_keywords # <<>>

\* C10: every accepted continue call appends exactly two messages to the message
\* list, one user message followed by one assistant message; after start and k
\* accepted continue calls the list has exactly 1 + 2k messages.
C10_TwoMessagesPerContinue ==
    \A t \in Started :
        call.op = "idle" => Len(values[t].messages) = 1 + 2 * continues[t]

\* Number of stage executions completed so far on a thread
StagesCompleted(t) ==
    executed[t]["planner_agent"] + executed[t]["retriever_agent"]
    + executed[t]["extractor_agent"] + executed[t]["writer_agent"]
    + executed[t]["critic_agent"]

IsPrefix(s, r) == Len(s) <= Len(r) /\ SubSeq(r, 1, Len(s)) = s

C11_LogsCoverStages ==
    \A t \in Started : Len(values[t].logs) >= StagesCompleted(t)

C11_LogsKept ==
    \A t \in Started : IsPrefix(values[t].logs, values'[t].logs)

\* C11: at every checkpoint the number of log entries is at least the number of
\* stage executions completed so far, and no operation removes or reorders
\* existing log entries.
C11_LogsAppendOnly == [](C11_LogsCoverStages) /\ [][C11_LogsKept]_vars

\* after approve and an accepted continue, with an extractor that logged twice
C11_Witness ==
    /\ call.op = "idle" /\ continues["t1"] > 0 /\ Exists("t1")
    /\ executed["t1"]["critic_agent"] > 1
    /\ Len(values["t1"].logs) > StagesCompleted("t1")

Ids(papers) == {papers[i].paper_id : i \in DOMAIN papers}

\* C12: the output of deduplicate_papers contains no two entries with the same
\* paper_id and no two entries with the same normalized title.
C12_DedupUnique ==
    /\ dedup.result = deduplicate_papers(dedup.papers)
    /\ \A i, j \in DOMAIN dedup.result :
         i # j => /\ dedup.result[i].paper_id # dedup.result[j].paper_id
                  /\ NormalizeTitle(dedup.result[i].title)
                       # NormalizeTitle(dedup.result[j].title)

\* an input with a repeated paper_id and with two spellings of one title
C12_Witness ==
    /\ Len(dedup.result) >= 1 /\ Len(dedup.result) < Len(dedup.papers)
    /\ \E i, j \in DOMAIN dedup.papers :
         i < j /\ dedup.papers[i].paper_id = dedup.papers[j].paper_id
    /\ \E i, j \in DOMAIN dedup.papers :
         /\ i < j /\ dedup.papers[i].paper_id # dedup.papers[j].paper_id
         /\ dedup.papers[i].title # dedup.papers[j].title
         /\ NormalizeTitle(dedup.papers[i].title) = NormalizeTitle(dedup.papers[j].title)

\* C13: when two entries with different paper_ids share a normalized title, the
\* later entry replaces the earlier one only if the later is from
\* semantic-scholar and the earlier is from arxiv or pubmed; in every other case
\* the first-seen entry is the one kept.
C13_ReplaceOnlyArxivPubmed ==
    dedup.existing # None =>
        LET paper == dedup.paper[1]
            existing == dedup.existing[1]
        IN IF paper.source = "semantic_scholar" /\ existing.source \in {"arxiv", "pubmed"}
           THEN paper.paper_id \in Ids(dedup.result)
                /\ existing.paper_id \notin Ids(dedup.result)
           ELSE existing.paper_id \in Ids(dedup.result)
                /\ paper.paper_id \notin Ids(dedup.result)

\* C14: deduplicate_papers is idempotent, including the order of the entries.
C14_DedupIdempotent ==
    deduplicate_papers(deduplicate_papers(dedup.papers)) = deduplicate_papers(dedup.papers)

\* an output of two entries of which the first replaced an earlier entry
C14_Witness ==
    /\ Len(dedup.papers) = 3
    /\ dedup.result = <<dedup.papers[2], dedup.papers[3]>>
    /\ NormalizeTitle(dedup.papers[3].title) = NormalizeTitle(dedup.papers[1].title)

\* A draft was returned by approve or continue
DraftReturned ==
    response.op \in {"approve", "continue"} /\ response.status = 200
    /\ response.final_draft # None

\* C15: in every draft returned by approve or continue, each citation index that
\* remains in a section's content after post-processing lies in
\* 1..len(approved_papers), approved_papers being the list the Extractor produced.
C15_ReturnedIndicesInRange ==
    DraftReturned =>
        LET draft == response.final_draft[1]
            approved_papers == values[response.thread].approved_papers
        IN \A i \in DOMAIN draft :
             \A idx \in draft[i].content : 1 <= idx /\ idx <= Len(approved_papers)

\* C16: after post-processing each section's cited_paper_ids lists, in ascending
\* index order and without duplicates, exactly the paper_ids of the approved papers
\* whose index (as numbered for the Writer and the Critic) appears as [N] in the
\* section's content.
C16_CitedPaperIds ==
    DraftReturned =>
        LET draft == response.final_draft[1]
            approved_papers == values[response.thread].approved_papers
        IN \A i \in DOMAIN draft :
             LET numbered == SortedSeq({idx \in draft[i].content :
                                          idx \in DOMAIN approved_papers})
             IN draft[i].cited_paper_ids =
                    [k \in DOMAIN numbered |-> approved_papers[numbered[k]].paper_id]

\* The chunks waiting in _queue, without the sentinel
QueuedChunks == [i \in {k \in DOMAIN sq._queue : sq._queue[k] # None} |-> sq._queue[i][1]]

\* C17 as stated: the concatenation of the chunks delivered to the consumer
\* equals the concatenation of all tokens passed to push, in push order.
C17_AllPushedDelivered ==
    sq.consumer = "terminated" => Join(sq.delivered) = Join(sq.pushed)

\* C17 amended: the tokens passed to push before the first call of close are
\* the tokens taken; at every moment the chunks delivered, then the chunks
\* queued, then the buffer, concatenate to exactly these tokens in push order; a
\* token pushed after close was called is dropped.
C17_OpenPushesDelivered ==
    /\ sq.accepted = SubSeq(sq.pushed, 1, sq.open_pushes)
    /\ None \notin Range(SubSeq(sq._queue, 1, Len(sq._queue) - 1))
    /\ Join(sq.delivered) \o Join(QueuedChunks) \o Join(sq._buffer) = Join(sq.accepted)
    /\ sq.consumer = "terminated" => Join(sq.delivered) = Join(sq.accepted)

\* a timer flush, a boundary flush and the residual flush of close, all consumed
C17_Witness ==
    /\ sq.consumer = "terminated" /\ Len(sq.delivered) = 3
    /\ sq.residual_flushes = 1 /\ Len(sq.accepted) = 3

Sentinels ==
    Cardinality({k \in DOMAIN sq._queue : sq._queue[k] = None})
    + (IF sq.consumer = "terminated" THEN 1 ELSE 0)

\* C18: after any number of close calls (sequential or overlapping) the queue
\* holds exactly one sentinel, the residual buffer has been flushed at most once
\* before it, and no chunk is enqueued after the sentinel.
C18_CloseIdempotent ==
    /\ Sentinels = (IF \E c \in Closers : sq.closer[c] = "done" THEN 1 ELSE 0)
    /\ Cardinality({c \in Closers : sq.closer[c] \in {"awaiting", "done"}}) <= 1
    /\ sq.residual_flushes <= 1
    /\ \A k \in DOMAIN sq._queue : sq._queue[k] = None => k = Len(sq._queue)
    /\ sq.consumer = "terminated" => sq._queue = <<>>

\* two overlapping close calls and a push after them, with a residual buffer
C18_Witness ==
    /\ \E c, d \in Closers : sq.closer[c] = "done" /\ sq.closer[d] = "returned_while_closing"
    /\ sq.residual_flushes = 1
    /\ Len(sq.pushed) > Len(sq.accepted)
    /\ sq._queue # <<>>

\* C19: once close has been called, the consume iterator eventually yields every
\* chunk enqueued before the sentinel and then terminates, whether the consumer
\* started before or after the close.
C19_ConsumerTerminates ==
    sq._closed ~> (sq.consumer = "terminated" /\ sq.delivered = sq.enqueued)

\* a consumer that started only after close had completed, and has terminated
C19_Witness ==
    /\ sq.consumer = "terminated" /\ Len(sq.delivered) >= 2
    /\ sq.delivered = sq.enqueued
    /\ \E c \in Closers : sq.closer[c] = "returned_after_close"

\* The lines of a stream of chunks, each named by what it carries
Lines(chunks) ==
    LET joined == Join(chunks)
    IN FilterSeq(joined, {i \in DOMAIN joined : joined[i] # "\n"})

TerminalAt(lines) == {i \in DOMAIN lines : lines[i] \in {"done", "error"}}

\* At most one terminal event has been put on the queue and nothing follows it;
\* once the producer has ended there is exactly one, naming how the run ended,
\* and the queue is closed; what a terminated consumer was given is all of it.
C20_OneTerminalEventLast ==
    LET put == Lines(sq.enqueued)
    IN /\ TerminalAt(put) \subseteq {Len(put)}
       /\ producer.pc = "streaming" => TerminalAt(put) = {} /\ ~sq._closed
       /\ producer.pc = "closing" =>
             /\ TerminalAt(put) = {Len(put)}
             /\ put[Len(put)] = producer.outcome
             /\ sq._closed
       /\ sq.consumer = "terminated" =>
             /\ producer.pc = "closing"
             /\ Join(sq.delivered) = Join(sq.pushed)
             /\ Lines(sq.delivered) = put

\* C20: every stream emits exactly one terminal event, done when the run
\* finished or error when a stage raised, after every log event of the run, and
\* the event queue is closed afterwards in both cases, so the response ends.
C20_StreamEndsWithOneTerminalEvent ==
    /\ [](C20_OneTerminalEventLast)
    /\ (producer.pc = "streaming") ~> (sq.consumer = "terminated")

\* a stage raised after two updates were streamed, and the response has ended
C20_Witness ==
    /\ sq.consumer = "terminated"
    /\ producer.outcome = "error"
    /\ producer.chunks = 2
    /\ Len(sq.delivered) >= 3
    /\ Lines(sq.delivered)[Len(sq.delivered)] = "error"

\* C21: should_skip(source) returns true exactly when at least 3 failures were
\* recorded for that source less than 120 seconds ago and since the last
\* record_success or reset for it; the failures of other sources do not count.
C21_ShouldSkipExact ==
    \A source \in TrackedSources :
        tracker.asked = Some(source) =>
            (tracker.answer <=>
                Cardinality({i \in DOMAIN tracker.since[source] :
                                tracker.now - tracker.since[source][i] < 120}) >= 3)

\* arxiv is skipped on three recent failures, a fourth one having aged out, while
\* pubmed, with one failure, is the source that failed last
C21_Witness ==
    /\ tracker.asked = Some("arxiv") /\ tracker.answer
    /\ Len(tracker.since["arxiv"]) = 4
    /\ Len(tracker._failures["arxiv"]) = 3
    /\ Len(tracker.since["pubmed"]) = 1

\* The retrieval has tested should_skip and has not yet looked at a result
RetrievalTested ==
    \/ tracker.retrieval.pc = "gathering"
    \/ tracker.retrieval.pc = "returned" /\ tracker.retrieval.source_keys = <<>>

\* The failures of a source since its last success that were recent when the
\* retrieval began
RecentAtBegin(source) ==
    {i \in DOMAIN tracker.since[source] :
        tracker.retrieval.began - tracker.since[source][i] < 120}

RECURSIVE PapersOf(_)
\* The papers of the searches that returned, in the order of the searches
PapersOf(results) ==
    IF results = <<>> THEN <<>>
    ELSE (IF Head(results) = None THEN <<>> ELSE Head(results)[1]) \o PapersOf(Tail(results))

\* C23: in a retrieval that has returned, a skipped source was not queried,
\* contributed no paper and had neither a failure nor a success recorded; every
\* other requested source was queried; the retrieval returned the deduplicated
\* papers of the searches that returned, and [] when no source was left.
C23_SkippedSourceExcluded ==
    LET r == tracker.retrieval
    IN r.pc = "returned" =>
          /\ \A source \in r.skipped :
                /\ source \notin Range(r.source_keys)
                /\ \A kind \in {"failure", "success"} : <<source, kind>> \notin r.recorded
                /\ \A k \in DOMAIN r.returned : r.returned[k].source # source
          /\ r.skipped \cup Range(r.source_keys) = r.sources
          /\ Len(r.results) = Len(r.source_keys)
          /\ r.returned = deduplicate_papers(PapersOf(r.results))
          /\ r.source_keys = <<>> => r.returned = <<>>

\* arxiv is skipped and the retrieval returns what pubmed found
C23_Witness ==
    /\ tracker.retrieval.pc = "returned"
    /\ tracker.retrieval.sources = {"arxiv", "pubmed"}
    /\ tracker.retrieval.skipped = {"arxiv"}
    /\ tracker.retrieval.recorded = {<<"pubmed", "success">>}
    /\ Len(tracker.retrieval.returned) = 2

\* C24 as stated: across the whole life of a session, including every approve
\* and continue call on the thread, the stored retry_count never decreases.
C24_RetryCountNeverDecreases ==
    [][\A t \in Started : values'[t].retry_count >= values[t].retry_count]_vars

\* C24, amended: the stored retry_count never decreases within a run of the
\* graph; the only step that lowers it is an accepted continue call, which
\* stores 0 before its run starts.
C24_RetryCountLoweredOnlyByContinue ==
    [][\A t \in Started :
          \/ values'[t].retry_count >= values[t].retry_count
          \/ /\ call.op = "idle" /\ call'.op = "continue" /\ call'.thread = t
             /\ values'[t].retry_count = 0]_vars

\* a continue call was accepted on a session whose first run ended with
\* retry_count 3, and its run has failed the critic once
C24_Witness ==
    /\ call.op = "continue" /\ call.before.retry_count = 3
    /\ values[call.thread].retry_count = 1

\* A request has been answered after a stage raised: 500 from a handler, the
\* error event from the stream
StageRaised == call.op = "idle" /\ response.detail \in {"exception", "error"}

\* C25: when a stage raises an exception during a run, the text of that
\* exception is appended to the stored logs of the session.
C25_ExceptionTextLogged ==
    StageRaised =>
        \E i \in DOMAIN values[response.thread].logs :
            values[response.thread].logs[i] = "exception"

\* No request is being served and the cursor of the thread stands inside the
\* run that approve resumed: a stage of that run raised
ApproveRunAbandoned(t) ==
    /\ call.op = "idle" /\ Exists(t) /\ ~values[t].is_continuation
    /\ next[t] \in {{"writer_agent"}, {"critic_agent"}}

\* C26: after a stage raised during the run resumed by approve, the stored
\* state stays at the last snapshot, and a further approve call on the thread
\* is accepted and continues from that snapshot.
C26_ApproveAgainAccepted ==
    \A t \in ThreadIds :
        (ApproveRunAbandoned(t) /\ response.op = "approve" /\ response.thread = t)
            => response.detail # "not_waiting"

\* C27: on every thread the Extractor starts only after an accepted approve call
\* has marked at least one candidate as approved; no other operation moves a
\* thread past the interrupt between Retriever and Extractor.
C27_ExtractorOnlyAfterApprove ==
    \A t \in Started :
        executed[t]["extractor_agent"] > 0 =>
            \E i \in DOMAIN values[t].candidate_papers :
                values[t].candidate_papers[i].is_approved

\* The approved candidates both of whose completions returned, the first with a
\* contribution
Succeeded(e) ==
    {i \in DOMAIN e.approved : e.core[i] = "ok" /\ e.structured[i] = "ok"}

\* C28: after the Extractor has returned, approved_papers holds, in candidate
\* order, exactly the approved candidates whose extraction succeeded with a
\* non-empty core_contribution; a failed extraction removes only its own paper
\* and the stage returns, in whatever order the extractions ended.
C28_ApprovedPapersInOrder ==
    LET e == extraction
        ids == [k \in DOMAIN e.approved_papers |-> e.approved_papers[k].paper_id]
        expected == SortedSeq({e.approved[i].paper_id : i \in Succeeded(e)})
    IN /\ e.pc = "returned" =>
             /\ ids = expected
             /\ \A k \in DOMAIN e.approved_papers :
                   /\ e.approved_papers[k].is_approved
                   /\ e.approved_papers[k].core_contribution
             /\ Len(e.approved_papers) + e.failed_count = Len(e.approved)
       /\ (e.pc = "gathering" /\ \A i \in DOMAIN e.task : e.task[i] \in {"done", "failed"})
             => ENABLED extractor_agent_returns

\* three approved papers: the second failed, the third ended before the first
C28_Witness ==
    /\ extraction.pc = "returned"
    /\ Len(extraction.approved) = 3
    /\ extraction.task = <<"done", "failed", "done">>
    /\ extraction.finished = <<2, 3, 1>>
    /\ Len(extraction.approved_papers) = 2

\* C30: during one Extractor execution no more than LLM_CONCURRENCY = 2 LLM
\* completion calls are in flight at any time.
C30_AtMostTwoLLMCallsInFlight == InFlight(extraction) <= 2

\* C29: DOI normalization is idempotent: for every input string x,
\* _normalize_doi(_normalize_doi(x)) equals _normalize_doi(x).
C29_NormalizeDoiIdempotent == doi.pc = "returned" => doi.twice = doi.once

\* C31: during the critic's semantic layer (the claim extraction of every
\* section, then the verification of every pair of a claim and a cited index)
\* never more than 2 LLM completion calls are in flight
C31_AtMostTwoSemanticCallsInFlight ==
    CompletionsInFlight(semantic) <= LLM_CONCURRENCY

\* C32: for a draft that is not null and N approved papers, Layer 1 of the
\* critic reports no error exactly when every section has a {cite:N} marker,
\* every cited index lies in 1..N, and every index of 1..N is cited somewhere
C32_StructuralLayerExact ==
    (critic.pc # "none" /\ critic.state.final_draft # None) =>
        LET draft == critic.state.final_draft[1]
            N == Len(critic.state.approved_papers)
        IN (critic.errors = <<>>) <=>
             /\ \A i \in DOMAIN draft : draft[i] # {}
             /\ \A i \in DOMAIN draft : \A idx \in draft[i] : 1 <= idx /\ idx <= N
             /\ \A idx \in 1..N : \E i \in DOMAIN draft : idx \in draft[i]

\* Layer 1 passed a draft of two sections for two papers, each cited in one section
C32_Witness ==
    /\ critic.pc # "none"
    /\ critic.state.final_draft = Some(<<{1}, {2}>>)
    /\ Len(critic.state.approved_papers) = 2
    /\ critic.errors = <<>>

\* The critic returned after Layer 1 found errors in the draft
StructuralFailure ==
    /\ critic.pc = "returned"
    /\ critic.state.final_draft # None
    /\ critic.errors # <<>>

\* C33: an execution of the critic that finds structural errors adds exactly 1
\* to retry_count, stores exactly those errors in qa_errors and makes no call of
\* the claim verification; and every execution either leaves qa_errors empty and
\* retry_count as it was, or leaves qa_errors non-empty and retry_count one higher
C33_CriticOutcomes ==
    /\ StructuralFailure =>
         /\ critic.patch.retry_count = critic.state.retry_count + 1
         /\ critic.patch.qa_errors = critic.errors
         /\ critic.calls = 0
    /\ critic.pc = "returned" =>
         \/ /\ critic.patch.qa_errors = <<>>
            /\ critic.patch.retry_count = critic.state.retry_count
         \/ /\ critic.patch.qa_errors # <<>>
            /\ critic.patch.retry_count = critic.state.retry_count + 1

\* A second failed check of a run: the draft cites a paper that does not exist
\* and misses paper 2, and the errors of the first check are replaced
C33_Witness ==
    /\ StructuralFailure
    /\ critic.state.retry_count = 1
    /\ critic.state.final_draft = Some(<<{1, 3}>>)
    /\ critic.patch.qa_errors = <<Error("hallucinated", 1, 3), Error("missing", 0, 2)>>
    /\ critic.patch.retry_count = 2

\* The critic returned after a call of verify_draft_citations
Verified == critic.pc = "returned" /\ critic.calls = 1

\* C34: when Layer 1 passes and the claim verification returns a summary with
\* total_verifications > 0, the critic fails the draft exactly when
\* 5 * entails_count < 4 * total_verifications, and then stores between 1 and 3
\* errors; when total_verifications is 0 or the verification raises, the draft
\* passes with qa_errors empty and retry_count unchanged
C34_EntailmentThreshold ==
    Verified =>
      /\ (~critic.summary.raised /\ critic.summary.total > 0) =>
           /\ (critic.patch.qa_errors # <<>>)
                <=> (5 * critic.summary.entails < 4 * critic.summary.total)
           /\ critic.patch.qa_errors # <<>> =>
                /\ Len(critic.patch.qa_errors) \in 1..3
                /\ critic.patch.retry_count = critic.state.retry_count + 1
      /\ (critic.summary.raised \/ critic.summary.total = 0) =>
           /\ critic.patch.qa_errors = <<>>
           /\ critic.patch.retry_count = critic.state.retry_count

\* 4 of 5 verifications entail: the ratio is the threshold and the draft passes
C34_Witness ==
    /\ Verified
    /\ ~critic.summary.raised
    /\ critic.summary.total = 5 /\ critic.summary.entails = 4
    /\ critic.patch.qa_errors = <<>>

\* The graph is running for request op and the writer has just returned
WriterRan(op) ==
    /\ call.op = op
    /\ call.writer.mode # "none"
    /\ next[call.thread] = {"critic_agent"}

\* After a failed check of this run only the writer and the critic run again
OnlyWriterReentered ==
    (call.op # "idle" /\ call.failed > 0) =>
        /\ next[call.thread] \subseteq {"writer_agent", "critic_agent"}
        /\ \A n \in {"planner_agent", "retriever_agent", "extractor_agent"} : call.ran[n] <= 1

\* Every execution of the writer that the critic's edge leads to takes the
\* single-call path with the retry addendum, after a failed check
RetryAfterCritic ==
    (WriterRan("approve") /\ call.writer.after_critic) =>
        /\ call.writer.mode = "single_call"
        /\ call.writer.addenda = {"retry"}
        /\ call.writer.llm_calls = 1
        /\ call.before.retry_count < values[call.thread].retry_count
        /\ values[call.thread].qa_errors # <<>>

\* C35 as stated: in a run resumed by approve the first execution of the writer
\* takes the fresh path (the outline call, then one call per section), every
\* execution reached through the critic's edge takes the single-call retry
\* path, and no other stage is re-entered after a failed check
C35_FirstWriterFreshThenRetry ==
    /\ (WriterRan("approve") /\ ~call.writer.after_critic) =>
          /\ call.writer.mode = "fresh"
          /\ call.writer.llm_calls = 1 + Len(lastDraft[call.thread][1])
    /\ RetryAfterCritic
    /\ OnlyWriterReentered

\* C35, amended: the first execution takes the fresh path when at least one
\* approved paper has an extracted contribution; with none the writer returns
\* no draft and makes no LLM call
C35_FirstWriterFreshWithPapers ==
    /\ (WriterRan("approve") /\ ~call.writer.after_critic) =>
          IF values[call.thread].approved_papers # <<>>
          THEN /\ call.writer.mode = "fresh"
               /\ call.writer.llm_calls = 1 + Len(lastDraft[call.thread][1])
          ELSE /\ call.writer.mode = "no_papers"
               /\ call.writer.llm_calls = 0
               /\ lastDraft[call.thread] = None
    /\ RetryAfterCritic
    /\ OnlyWriterReentered

\* The third execution of the writer in a run resumed by approve, on the retry path
C35_Witness ==
    /\ WriterRan("approve")
    /\ call.ran["writer_agent"] = 3
    /\ call.ran["extractor_agent"] = 1
    /\ call.writer.after_critic
    /\ call.writer.mode = "single_call"

\* C36: every execution of the writer on the single-call path builds its prompt
\* from the base template and exactly one addendum, the retry addendum or the
\* revision addendum, also when it retries after a failed check in a run
\* started by continue
C36_ExactlyOneAddendum ==
    (call.op # "idle" /\ call.writer.mode = "single_call") =>
        \/ call.writer.addenda = {"retry"}
        \/ call.writer.addenda = {"revision"}

\* C37: once the timer of the StreamingEventQueue is started, every wake of the
\* timer (every 200 ms) flushes a non-empty buffer to the queue, so that no
\* token pushed since stays in the buffer for longer than one timer interval
C37_TimerFlushesEveryTick ==
    sq._flush_task = "sleeping" =>
        /\ clock.found => clock.flushed
        /\ \A i \in DOMAIN clock.pushed_at :
              clock.pushed_at[i] >= clock.started_at
                  => clock.now - clock.pushed_at[i] <= FLUSH_INTERVAL_MS

\* C38: a Semantic Scholar keyword request is tried again after an HTTP 429 and
\* after an HTTP 5xx response, makes at most 3 attempts, and after the third
\* failed attempt raises its error to the caller
C38_RetriedOn429And5xx ==
    \A i \in DOMAIN fetch.requests :
        LET request == fetch.requests[i]
        IN /\ request.attempts <= 3
           /\ (request.response \in {"429", "500", "503"} /\ request.attempts < 3) =>
                  request.status = "pending"
           /\ (request.response # "200" /\ request.attempts = 3) =>
                  request.status = "raised"

\* The retrievals in which every request to source failed that were less than
\* 120 seconds old when the retrieval in flight began
RecentOutages(source) ==
    {i \in DOMAIN tracker.outages[source] :
        tracker.retrieval.began - tracker.outages[source][i] < 120}

\* C39: a retrieval in which every keyword request to a queried source
\* (Semantic Scholar or arXiv) failed records one failure for the source and
\* does not clear its earlier failures, so that after three such retrievals
\* within 120 seconds the source is skipped
C39_FailedRequestsCountAsFailure ==
    LET r == tracker.retrieval
    IN /\ r.pc = "returned" =>
            \A i \in DOMAIN r.source_keys :
                (r.source_keys[i] \in {"semantic_scholar", "arxiv"} /\ r.results[i] = Some(<<>>))
                    => /\ <<r.source_keys[i], "failure">> \in r.recorded
                       /\ <<r.source_keys[i], "success">> \notin r.recorded
                       /\ tracker._failures[r.source_keys[i]] # <<>>
       /\ RetrievalTested =>
            \A source \in r.sources \cap {"semantic_scholar", "arxiv"} :
                Cardinality(RecentOutages(source)) >= 3 => source \in r.skipped

\* C40: of two approve calls for one thread that overlap, at most one passes
\* the test for 'waiting for approval' and runs the pipeline and the other is
\* answered 400, so that the extractor is not executed twice for one interrupt
\* and the two requests never run the graph at the same time
C40_OneApprovePerInterrupt ==
    LET passed == {h \in Handlers : overlap.handler[h].pc \in {"guard_passed", "running", "done"}}
    IN /\ Cardinality(passed) <= 1
       /\ (\A h \in Handlers : overlap.handler[h].pc \in {"rejected", "done"}) =>
             \E h \in Handlers : overlap.handler[h].status = 400
       /\ overlap.executed["extractor_agent"] <= 1

====
